---- MODULE Spec2Model ----
(***************************************************************************)
(* Verification model of the PDF quote extractor (pdf_quote_extractor).    *)
(*                                                                         *)
(* These specifications share this module:                                 *)
(*   SpecValidation  run_validation applied to bounded inputs              *)
(*   SpecSelect      select_line_items_for_total applied to bounded inputs *)
(*   Spec            run_pipeline over a batch of documents, run twice on  *)
(*                   the same inputs, once with strict = FALSE and once    *)
(*                   with strict = TRUE                                    *)
(*   SpecParse       parse_line_items, one table row at a time             *)
(*   SpecReorder     parse_line_items on a table and on the same table     *)
(*                   with its columns reordered                            *)
(*   SpecSummary     the currency of extract_business_summary              *)
(*   SpecTemplateRows  _build_template_rows applied to bounded payloads    *)
(*   SpecTemplate    fill_quote_template, step by step                     *)
(*   SpecPositional  parse_line_items over short and long rows with no     *)
(*                   header, for any configured min_columns                *)
(*   SpecDocuments   parse_line_items over two documents of a run, and     *)
(*                   over the second document alone                        *)
(*   SpecNumber      parse_number_value applied to bounded number tokens   *)
(*   SpecUpload      extract_template, one uploaded PDF at a time          *)
(*   SpecExtract     extract_pdf_raw, one page at a time                   *)
(*                                                                         *)
(* Amounts of money are integers (one unit = one step of the money         *)
(* tolerance scale); floating point rounding is not modelled.  An optional *)
(* value (Python None or a value) is the empty sequence or <<value>>.      *)
(***************************************************************************)
EXTENDS Integers, Sequences, FiniteSets, TLC

VARIABLES
    \* ---- run_validation (SpecValidation) ----
    raw_result,         \* the raw extraction result handed to run_validation
    n_line_items,       \* len(line_items) handed to run_validation
    business_summary,   \* total_value, line_items_total_value, overall_total_value
    config,             \* validation section of the configuration
    report,             \* the rows run_validation returned
    critical_failed,    \* the flag run_validation returned
    vpc,                \* "idle" | "input" | "validated"
    \* ---- select_line_items_for_total (SpecSelect) ----
    line_items,         \* the items handed to select_line_items_for_total
    total_value,        \* the stated total, optional
    tolerance,          \* the money tolerance
    selected,           \* the result of the call
    reselected,         \* the result of calling it again on its own result
    spc,                \* "idle" | "input" | "selected" | "reselected"
    \* ---- run_pipeline (Spec): one entry per run ----
    pdfs,               \* the resolved input documents, in processing order
    run_config,         \* the loaded configuration (validation section)
    template,           \* the template's row capacity, None without a template
    write_audit_workbook, \* the option of the same name
    strict,             \* strict[r]: the strict flag of run r
    files_payload,      \* files_payload[r]: the per-file records so far
    rows_by_sheet,      \* rows_by_sheet[r]: the flat rows of the audit sheets
    strict_failures,    \* strict_failures[r]
    written,            \* written[r]: the artifacts run r has written
    template_output,    \* template_output[r]: the result of fill_quote_template
    exit_code,          \* exit_code[r]: None until the run returns
    pc,                 \* pc[r]: "idle" | "loop" | "done" | "raised"
    \* ---- parse_line_items (SpecParse, SpecReorder) ----
    line_item_rules,    \* the line_item_rules section of the configuration
    table_row,          \* the row handled last, None before the first row
    parser,             \* the loop state of parse_line_items
    rows_done,          \* the number of rows handled so far
    column_order,       \* SpecReorder: the order the table's columns are laid out in
    reordered_parser,   \* SpecReorder: the loop state over the reordered table
    documents_done,     \* SpecDocuments: the loop states the earlier documents ended with
    alone_parser,       \* SpecDocuments: the loop state over the document parsed alone
    \* ---- extract_business_summary (SpecSummary) ----
    full_text,          \* what the total patterns matched in the document's text
    normalization,      \* the normalization section of the configuration
    extracted_summary,  \* the totals part of the summary, None before the call
    \* ---- fill_quote_template (SpecTemplateRows, SpecTemplate) ----
    fill_payload,       \* the files_payload handed to fill_quote_template
    fill_args,          \* euro_rate, margin_percent, header_row, data_start_row and
                        \* whether the workbook has the sheet
    template_sheet,     \* the sheet of the template file
    ws,                 \* the sheet of the loaded workbook
    resolved,           \* header row, header columns, data start row and capacity
    template_rows,      \* rows_to_write, None until built
    saved_output,       \* the sheet saved to template_output_path, None until saved
    fill_outcome,       \* the summary returned or the error raised, None before
    fpc,                \* "idle" | "start" | "open" | "clear" | "fill" | "save" |
                        \* "returned" | "raised"
    \* ---- parse_number_value (SpecNumber) ----
    raw_number,         \* the number token, a sequence of characters
    thousands_enabled,  \* allow_thousands
    normalized_number,  \* the text parse_number_value handed to float()
    number_value,       \* what parse_number_value returned
    npc,                \* "idle" | "input" | "parsed"
    \* ---- extract_template (SpecUpload) ----
    request,            \* the files of the request, the dedupe flag, strict outcome
    glob_case_sensitive, \* whether rglob("*.pdf") tells ".PDF" from ".pdf"
    upload,             \* the loop over the uploads: index, temp_dir, digests, counts
    upload_response,    \* the response, once given
    upc,                \* "idle" | "loop" | "responded"
    \* ---- extract_pdf_raw (SpecExtract) ----
    pdf,                \* the opened PDF: its pages, each with its native text and words and
                        \* with what ocr_page_words does on it
    ocr_mode,           \* "off" | "auto" | "always"
    results,            \* the dict extract_pdf_raw builds and returns
    epc                 \* "idle" | "pages" | "returned"

vvars == <<raw_result, n_line_items, business_summary, config, report, critical_failed, vpc>>

svars == <<line_items, total_value, tolerance, selected, reselected, spc>>

pvars == <<pdfs, run_config, template, write_audit_workbook, strict, files_payload, rows_by_sheet,
           strict_failures, written, template_output, exit_code, pc>>

qvars == <<line_item_rules, table_row, parser, rows_done, column_order, reordered_parser,
          documents_done, alone_parser>>

cvars == <<full_text, normalization, extracted_summary>>

tvars == <<fill_payload, fill_args, template_sheet, ws, resolved, template_rows,
           saved_output, fill_outcome, fpc>>

nvars == <<raw_number, thousands_enabled, normalized_number, number_value, npc>>

uvars == <<request, glob_case_sensitive, upload, upload_response, upc>>

evars == <<pdf, ocr_mode, results, epc>>

vars == <<vvars, svars, pvars, qvars, cvars, tvars, nvars, uvars, evars>>

\* ------------------------------------------------------------------------
\* Optional values
\* ------------------------------------------------------------------------
None == <<>>

Some(v) == <<v>>

IsNone(x) == x = <<>>

Val(x) == x[1]

Optional(S) == {None} \cup {Some(v) : v \in S}

Abs(x) == IF x < 0 THEN -x ELSE x

\* ------------------------------------------------------------------------
\* Bounds
\* ------------------------------------------------------------------------
MaxPages == 2

MaxMoney == 2

MaxItems == 3

MaxSections == 3

MaxNet == 1

MaxPdfs == 2

MaxCapacity == 2

\* the rows of a document's tables
MaxRows == 3

\* the columns a reordered table has out of their positional place
MaxMoved == 3

\* the line items of the payload handed to the template
MaxTemplateItems == 2

\* the rows of a template sheet below its blank rows
MaxSheetRows == 3

\* the digit groups of a number token
MaxGroups == 3

\* the configured min_columns of the line item rules, from 0
MaxColumns == 9

\* the files of an upload request, and their distinct contents
MaxUploads == 3

MaxContents == 2

\* amounts of money (totals)
Money == 0..MaxMoney

\* ------------------------------------------------------------------------
\* Configuration (config.py)
\* ------------------------------------------------------------------------
\* validation.money_tolerance of DEFAULT_CONFIG, 0.01, as one money unit
MoneyTolerance == 1

DefaultCriticalRules ==
    {"table_presence", "line_item_presence", "total_vs_line_items", "total_vs_overall_total"}

RuleIds ==
    <<"page_presence", "word_presence", "word_coverage_per_page", "table_presence",
      "line_item_presence", "total_vs_line_items", "total_vs_overall_total", "link_capture">>

RuleIdSet == {RuleIds[i] : i \in 1..Len(RuleIds)}

Runs == {1, 2}

\* the fields of a table row, in the order of LINE_ITEM_HEADER_PATTERNS, which
\* is also the order of the positional columns c1..c8
Fields ==
    <<"service_name", "sku", "units_qty", "term", "list_unit_price", "discount_pct",
      "net_unit_price", "net_total">>

FieldSet == {Fields[i] : i \in 1..Len(Fields)}

\* line_item_rules.min_columns of DEFAULT_CONFIG
DefaultMinColumns == 8

\* line_item_rules.header_contains of DEFAULT_CONFIG
DefaultHeaderContains ==
    <<"Service/Product Name", "Service/Product", "Code/SKU", "Subscription", "Term",
      "List Unit Price", "Discount", "Net Unit Price", "Net Total">>

\* a column map without entries: active_column_map = {}
EmptyColumnMap == [f \in FieldSet |-> None]

\* the loop state of parse_line_items before the first row; current_item is
\* the position in items of the open item, raised tells that the loop ended
\* with an exception
InitialParser ==
    [items |-> <<>>,
     current_item |-> None,
     quote_section_index |-> 1,
     section_has_items |-> FALSE,
     active_column_map |-> EmptyColumnMap,
     raised |-> FALSE]

\* the columns of a table in the order the positional reading expects
IdentityOrder == [c \in 1..Len(Fields) |-> c]

\* normalization.currency_default of DEFAULT_CONFIG
DefaultCurrency == "USD"

\* ------------------------------------------------------------------------
\* The variables of a specification that is not running
\* ------------------------------------------------------------------------
\* every part of the program but the busy one is as it is before any call
OthersIdle(busy) ==
    /\ IF busy = "validation" THEN TRUE ELSE
          /\ raw_result = [pages |-> <<>>, text_words |-> 0, tables_raw |-> 0, links |-> 0]
          /\ n_line_items = 0
          /\ business_summary = [total_value |-> None, line_items_total_value |-> None,
                                 overall_total_value |-> None]
          /\ config = [money_tolerance |-> MoneyTolerance, critical_rules |-> {}]
          /\ report = <<>>
          /\ critical_failed = FALSE
          /\ vpc = "idle"
    /\ IF busy = "select" THEN TRUE ELSE
          /\ line_items = <<>>
          /\ total_value = None
          /\ tolerance = MoneyTolerance
          /\ selected = <<>>
          /\ reselected = <<>>
          /\ spc = "idle"
    /\ IF busy = "pipeline" THEN TRUE ELSE
          /\ pdfs = <<>>
          /\ run_config = [money_tolerance |-> MoneyTolerance, critical_rules |-> {}]
          /\ template = None
          /\ write_audit_workbook = TRUE
          /\ strict = [r \in Runs |-> FALSE]
          /\ files_payload = [r \in Runs |-> <<>>]
          /\ rows_by_sheet = [r \in Runs |-> [line_items_parsed |-> <<>>, validation_report |-> <<>>]]
          /\ strict_failures = [r \in Runs |-> FALSE]
          /\ written = [r \in Runs |-> {}]
          /\ template_output = [r \in Runs |-> None]
          /\ exit_code = [r \in Runs |-> None]
          /\ pc = [r \in Runs |-> "idle"]
    /\ IF busy = "parser" THEN TRUE ELSE
          /\ line_item_rules = [header_contains |-> DefaultHeaderContains,
                                min_columns |-> DefaultMinColumns]
          /\ table_row = None
          /\ parser = InitialParser
          /\ rows_done = 0
          /\ column_order = IdentityOrder
          /\ reordered_parser = InitialParser
          /\ documents_done = <<>>
          /\ alone_parser = InitialParser
    /\ IF busy = "summary" THEN TRUE ELSE
          /\ full_text = [total_raw |-> None, overall_total_raw |-> None]
          /\ normalization = [currency_default |-> DefaultCurrency]
          /\ extracted_summary = None
    \* a sheet: lead blank rows, then the rows of body, each a sequence of cells
    /\ IF busy = "template" THEN TRUE ELSE
          /\ fill_payload = <<>>
          /\ fill_args = [euro_rate |-> None, margin_percent |-> None, sheet_found |-> FALSE,
                          header_row |-> None, data_start_row |-> None]
          /\ template_sheet = [lead |-> 0, body |-> <<>>]
          /\ ws = template_sheet
          /\ resolved = None
          /\ template_rows = None
          /\ saved_output = None
          /\ fill_outcome = None
          /\ fpc = "idle"
    /\ IF busy = "number" THEN TRUE ELSE
          /\ raw_number = <<>>
          /\ thousands_enabled = FALSE
          /\ normalized_number = None
          /\ number_value = None
          /\ npc = "idle"
    /\ IF busy = "upload" THEN TRUE ELSE
          /\ request = [files |-> <<>>, dedupe |-> FALSE, strict_failed |-> FALSE]
          /\ glob_case_sensitive = TRUE
          /\ upload = [index |-> 0, temp_dir |-> <<>>, seen_digests |-> {}, saved_pdf_count |-> 0,
                       duplicates_skipped |-> 0]
          /\ upload_response = None
          /\ upc = "idle"
    /\ IF busy = "extract" THEN TRUE ELSE
          /\ pdf = [pages |-> <<>>]
          /\ ocr_mode = "off"
          /\ results = [pages |-> <<>>, text_words |-> <<>>, ocr_pages |-> <<>>, full_text |-> <<>>]
          /\ epc = "idle"

\* ------------------------------------------------------------------------
\* validate.py
\* ------------------------------------------------------------------------
_status(ok) == IF ok THEN "PASS" ELSE "FAIL"

\* the nested function add(): one row of the report
add(rule_id, severity, ok, observed) ==
    [rule_id |-> rule_id, severity |-> severity, status |-> _status(ok),
     observed_value |-> observed]

\* pages whose word_count is 0, in page order
RECURSIVE per_page_word_zeros(_)
per_page_word_zeros(pages) ==
    IF pages = <<>> THEN <<>>
    ELSE LET rest == per_page_word_zeros(SubSeq(pages, 1, Len(pages) - 1))
             last == pages[Len(pages)]
         IN IF last.word_count = 0 THEN Append(rest, last.page) ELSE rest

\* variant: a missing value passes, as for the overall total rule's documented behaviour
total_vs_line_items_row_missing_passes(summary, tol) ==
    LET total == summary.total_value
        line_total == summary.line_items_total_value
    IN IF ~IsNone(total) /\ ~IsNone(line_total)
       THEN LET diff == Abs(Val(total) - Val(line_total))
            IN add("total_vs_line_items", "critical", diff <= tol, Some(diff))
       ELSE add("total_vs_line_items", "critical", TRUE, None)

total_vs_line_items_row(summary, tol) ==
    LET total == summary.total_value
        line_total == summary.line_items_total_value
    IN IF ~IsNone(total) /\ ~IsNone(line_total)
       THEN LET diff == Abs(Val(total) - Val(line_total))
            IN add("total_vs_line_items", "critical", diff <= tol, Some(diff))
       ELSE add("total_vs_line_items", "critical", FALSE, None)

total_vs_overall_total_row(summary, tol) ==
    LET total == summary.total_value
        overall_total == summary.overall_total_value
    IN IF ~IsNone(total) /\ ~IsNone(overall_total)
       THEN LET diff == Abs(Val(total) - Val(overall_total))
            IN add("total_vs_overall_total", "critical", diff <= tol, Some(diff))
       ELSE add("total_vs_overall_total", "critical", FALSE, None)

\* variant: the severity tag decides instead of the configured rule set
compute_critical_failed_by_severity(rows, critical_rules) ==
    \E i \in 1..Len(rows) : rows[i].severity = "critical" /\ rows[i].status = "FAIL"

compute_critical_failed(rows, critical_rules) ==
    \E i \in 1..Len(rows) : rows[i].rule_id \in critical_rules /\ rows[i].status = "FAIL"

run_validation(raw, nitems, summary, cfg) ==
    LET tol == cfg.money_tolerance
        zeros == per_page_word_zeros(raw.pages)
        rows ==
            << add("page_presence", "critical", raw.pages # <<>>, Some(Len(raw.pages))),
               add("word_presence", "high", raw.text_words > 0, Some(raw.text_words)),
               add("word_coverage_per_page", "high", zeros = <<>>, zeros),
               add("table_presence", "critical", raw.tables_raw > 0, Some(raw.tables_raw)),
               add("line_item_presence", "critical", nitems > 0, Some(nitems)),
               total_vs_line_items_row(summary, tol),
               total_vs_overall_total_row(summary, tol),
               add("link_capture", "medium", TRUE, Some(raw.links)) >>
    IN [report |-> rows,
        critical_failed |-> compute_critical_failed(rows, cfg.critical_rules)]

\* ------------------------------------------------------------------------
\* business.py: select_line_items_for_total, _reindex_items
\* ------------------------------------------------------------------------
\* int(item.get("quote_section_index") or 1)
section_of(item) ==
    IF IsNone(item.quote_section_index) THEN 1 ELSE Val(item.quote_section_index)

\* float(item.get("net_total_value") or 0.0)
net_or_zero(item) ==
    IF IsNone(item.net_total_value) THEN 0 ELSE Val(item.net_total_value)

RECURSIVE sum_net_total(_)
sum_net_total(items) ==
    IF items = <<>> THEN 0
    ELSE net_or_zero(items[1]) + sum_net_total(Tail(items))

\* sections[s]: the items of section s, in their original order
RECURSIVE section_items(_, _)
section_items(items, s) ==
    IF items = <<>> THEN <<>>
    ELSE LET rest == section_items(Tail(items), s)
         IN IF section_of(items[1]) = s THEN <<items[1]>> \o rest ELSE rest

section_keys(items) == {section_of(items[i]) : i \in 1..Len(items)}

_reindex_items(items) ==
    [idx \in 1..Len(items) |-> [items[idx] EXCEPT !.item_index = idx]]

section_diff(items, s, target_total) ==
    Abs(target_total - sum_net_total(section_items(items, s)))

\* the sections within tolerance of the total
matched_sections(items, target_total, tol) ==
    {s \in section_keys(items) : section_diff(items, s, target_total) <= tol}

\* variant: sorted by section index only, the difference is ignored
selected_section_lowest_index(items, target_total, tol) ==
    LET matched == matched_sections(items, target_total, tol)
    IN CHOOSE s \in matched : \A t \in matched : s <= t

\* matched_sections.sort(key=(diff, section)); matched_sections[0][1]
selected_section(items, target_total, tol) ==
    LET matched == matched_sections(items, target_total, tol)
        d(s) == section_diff(items, s, target_total)
    IN CHOOSE s \in matched :
           \A t \in matched : d(s) < d(t) \/ (d(s) = d(t) /\ s <= t)

\* variant: the selected section is dropped instead of kept
RECURSIVE selected_items_inverted(_, _)
selected_items_inverted(items, sel) ==
    IF items = <<>> THEN <<>>
    ELSE LET rest == selected_items_inverted(Tail(items), sel)
         IN IF section_of(items[1]) # sel THEN <<items[1]>> \o rest ELSE rest

\* the items returned once a section matched
selected_items(items, sel) == section_items(items, sel)

\* variant: no fallback, nothing is returned when no section matches
select_line_items_for_total_no_fallback(items, total, tol) ==
    IF items = <<>> THEN <<>>
    ELSE IF Cardinality(section_keys(items)) <= 1 \/ IsNone(total)
    THEN _reindex_items(items)
    ELSE IF matched_sections(items, Val(total), tol) = {}
    THEN <<>>
    ELSE _reindex_items(selected_items(items, selected_section(items, Val(total), tol)))

select_line_items_for_total(items, total, tol) ==
    IF items = <<>> THEN <<>>
    ELSE IF Cardinality(section_keys(items)) <= 1 \/ IsNone(total)
    THEN _reindex_items(items)
    ELSE IF matched_sections(items, Val(total), tol) = {}
    THEN _reindex_items(items)
    ELSE _reindex_items(selected_items(items, selected_section(items, Val(total), tol)))

\* variant: copied = item, so that the new item_index is written to the dict
\* of the input list
input_after_select_in_place(items, total, tol) ==
    LET out == select_line_items_for_total(items, total, tol)
        chosen == IF Len(out) = Len(items) THEN 1..Len(items)
                  ELSE {i \in 1..Len(items) :
                           section_of(items[i]) = selected_section(items, Val(total), tol)}
    IN [i \in 1..Len(items) |->
           IF i \in chosen
           THEN [items[i] EXCEPT !.item_index = Cardinality({h \in chosen : h <= i})]
           ELSE items[i]]

\* the list handed to select_line_items_for_total, after the call: the dicts
\* are put into the sections and handed to _reindex_items as they are, and
\* copied = dict(item) makes a new dict of each before item_index is written
input_after_select(items, total, tol) == items

\* ------------------------------------------------------------------------
\* Inputs of select_line_items_for_total
\* ------------------------------------------------------------------------
\* item number i of a list, as parse_line_items numbers it
LineItem(i, sec, net) ==
    [item_index |-> i, sku |-> i, quote_section_index |-> sec, net_total_value |-> net,
     net_unit_price_raw |-> "price", list_unit_price_value |-> None]

\* the list of n items whose sections and net totals are given by shape
LineItemList(n, shape) == [i \in 1..n |-> LineItem(i, shape[i][1], shape[i][2])]

\* ------------------------------------------------------------------------
\* SpecSelect
\* ------------------------------------------------------------------------
InitSelect ==
    LET SectionIndexes == Optional(1..MaxSections)
        NetTotals == Optional(1..MaxNet)
        \* exact matching, and the tolerance process_one_pdf passes by default
        Tolerances == {0, MoneyTolerance}
    IN
    /\ \E n \in 0..MaxItems :
           \E shape \in [1..n -> SectionIndexes \X NetTotals] :
               line_items = LineItemList(n, shape)
    /\ total_value \in Optional(Money)
    /\ tolerance \in Tolerances
    /\ selected = <<>>
    /\ reselected = <<>>
    /\ spc = "input"
    /\ OthersIdle("select")

\* reconciled = select_line_items_for_total(line_items, total_value, tolerance)
Select ==
    /\ spc = "input"
    /\ selected' = select_line_items_for_total(line_items, total_value, tolerance)
    /\ line_items' = input_after_select(line_items, total_value, tolerance)
    /\ spc' = "selected"
    /\ UNCHANGED <<total_value, tolerance, reselected, vvars, pvars, qvars, cvars, tvars, nvars, uvars, evars>>

\* the same call on the result of the first
SelectAgain ==
    /\ spc = "selected"
    /\ reselected' = select_line_items_for_total(selected, total_value, tolerance)
    /\ spc' = "reselected"
    /\ UNCHANGED <<line_items, total_value, tolerance, selected, vvars, pvars, qvars, cvars, tvars, nvars, uvars, evars>>

NextSelect == Select \/ SelectAgain

SpecSelect == InitSelect /\ [][NextSelect]_vars

\* ------------------------------------------------------------------------
\* Inputs of run_validation
\* ------------------------------------------------------------------------

\* ------------------------------------------------------------------------
\* SpecValidation
\* ------------------------------------------------------------------------
InitValidation ==
    LET
        \* page lists: page i of n has number i and a word count of 0 or 1
        PageLists ==
            UNION {{[i \in 1..n |-> [page |-> i, word_count |-> wc[i]]] : wc \in [1..n -> {0, 1}]}
                   : n \in 0..MaxPages}
        RawResults ==
            [pages : PageLists, text_words : {0, 1}, tables_raw : {0, 1}, links : {0}]
        BusinessSummaries ==
            [total_value : Optional(Money), line_items_total_value : Optional(Money),
             overall_total_value : Optional(Money)]
        \* critical rule sets: none, the default, every single rule, all rules
        CriticalRuleSets ==
            {{}, DefaultCriticalRules, RuleIdSet} \cup {{r} : r \in RuleIdSet}
        ValidationConfigs ==
            [money_tolerance : {0, MoneyTolerance}, critical_rules : CriticalRuleSets]
    IN
    /\ raw_result \in RawResults
    /\ n_line_items \in {0, 1}
    /\ business_summary \in BusinessSummaries
    /\ config \in ValidationConfigs
    /\ report = <<>>
    /\ critical_failed = FALSE
    /\ vpc = "input"
    /\ OthersIdle("validation")

RunValidation ==
    /\ vpc = "input"
    /\ LET res == run_validation(raw_result, n_line_items, business_summary, config)
       IN /\ report' = res.report
          /\ critical_failed' = res.critical_failed
    /\ vpc' = "validated"
    /\ UNCHANGED <<raw_result, n_line_items, business_summary, config, svars, pvars, qvars, cvars, tvars, nvars, uvars, evars>>

SpecValidation == InitValidation /\ [][RunValidation]_vars

\* ========================================================================
\* parse_line_items (business.py)
\* ========================================================================

\* str(value).strip() of the texts: only the blank text strips to nothing
_clean_cell(value) ==
    IF IsNone(value) THEN None
    ELSE IF Val(value) = " " THEN None
    ELSE value

\* the fields of LINE_ITEM_HEADER_PATTERNS one of whose patterns is a
\* substring of _normalize_header_text(text)
HeaderPatternFields(text) ==
    CASE text = "Service/Product Name" -> {"service_name"}
      [] text = "Service/Product Code/SKU" -> {"sku"}
      [] text = "Units/Quantity" -> {"units_qty"}
      [] text = "Term" -> {"term"}
      [] text = "List Unit Price" -> {"list_unit_price"}
      [] text = "Discount (%)" -> {"discount_pct"}
      [] text = "Net Unit Price" -> {"net_unit_price"}
      [] text = "Net Total" -> {"net_total"}
      [] text = "Term Discount" -> {"term", "discount_pct"}
      [] OTHER -> {}

\* the inner loop of _detect_line_item_column_map over the patterns: the
\* first field, in the order of the dict, with a pattern in the cell
header_field_of(cell) ==
    IF IsNone(cell) \/ HeaderPatternFields(Val(cell)) = {} THEN None
    ELSE LET hits == {i \in 1..Len(Fields) : Fields[i] \in HeaderPatternFields(Val(cell))}
         IN Some(Fields[CHOOSE i \in hits : \A j \in hits : i <= j])

\* variant: the two identity fields are enough for a header
_detect_line_item_column_map_identity_only(cells) ==
    LET columns_of(f) == {idx \in 1..Len(cells) : header_field_of(cells[idx]) = Some(f)}
        mapping == [f \in FieldSet |->
                       IF columns_of(f) = {} THEN None
                       ELSE Some(CHOOSE idx \in columns_of(f) :
                                     \A other \in columns_of(f) : idx <= other)]
        has_identity == ~IsNone(mapping["service_name"]) /\ ~IsNone(mapping["sku"])
    IN IF has_identity THEN mapping ELSE EmptyColumnMap

\* a header is read as a map only with both identity fields and one pricing field
_detect_line_item_column_map(cells) ==
    LET columns_of(f) == {idx \in 1..Len(cells) : header_field_of(cells[idx]) = Some(f)}
        mapping == [f \in FieldSet |->
                       IF columns_of(f) = {} THEN None
                       ELSE Some(CHOOSE idx \in columns_of(f) :
                                     \A other \in columns_of(f) : idx <= other)]
        has_identity == ~IsNone(mapping["service_name"]) /\ ~IsNone(mapping["sku"])
        has_pricing == \E name \in {"list_unit_price", "net_unit_price", "net_total"} :
                           ~IsNone(mapping[name])
    IN IF has_identity /\ has_pricing THEN mapping ELSE EmptyColumnMap

\* variant: the cell is read from the field's positional column whatever the map says
_mapped_cell_positional(cells, mapping, field_name) ==
    LET idx == CHOOSE i \in 1..Len(Fields) : Fields[i] = field_name
    IN IF idx > Len(cells) THEN None ELSE cells[idx]

_mapped_cell(cells, mapping, field_name) ==
    LET idx == mapping[field_name]
    IN IF IsNone(idx) THEN None
       ELSE IF Val(idx) > Len(cells) THEN None
       ELSE cells[Val(idx)]

\* header.lower() of the configured header_contains texts and of the cells
Lower(text) ==
    CASE text = "Service/Product Name" -> "service/product name"
      [] text = "Service/Product" -> "service/product"
      [] text = "Code/SKU" -> "code/sku"
      [] text = "Service/Product Code/SKU" -> "service/product code/sku"
      [] OTHER -> text

\* needle in text, for lowercased texts
LowerContains(text, needle) ==
    CASE text = "service/product name" ->
             needle \in {"service/product name", "service/product"}
      [] text = "service/product code/sku" ->
             needle \in {"service/product code/sku", "service/product", "code/sku", "sku"}
      [] OTHER -> needle = text

\* needle in row_text: with these texts a needle never spans two cells
row_text_contains(normalized, needle) ==
    \E i \in 1..Len(normalized) :
        ~IsNone(normalized[i]) /\ LowerContains(Lower(Val(normalized[i])), needle)

\* parse_currency_value of the texts
parse_currency_value(raw) ==
    IF IsNone(raw) THEN None
    ELSE CASE Val(raw) = "USD 5" -> Some(5)
           [] Val(raw) = "USD 2" -> Some(2)
           [] Val(raw) = "USD 0.00" -> Some(0)
           [] Val(raw) = "10.00" -> Some(10)
           [] Val(raw) = "3 Users" -> Some(3)
           [] Val(raw) = "12/01/2025 - 12/01/2026" -> Some(12)
           [] OTHER -> None

\* _parse_percent of the texts: the first run of digits, as for the amounts
_parse_percent(raw) ==
    IF IsNone(raw) THEN None
    ELSE CASE Val(raw) = "USD 5" -> Some(5)
           [] Val(raw) = "USD 2" -> Some(2)
           [] Val(raw) = "USD 0.00" -> Some(0)
           [] Val(raw) = "10.00" -> Some(10)
           [] Val(raw) = "3 Users" -> Some(3)
           [] Val(raw) = "12/01/2025 - 12/01/2026" -> Some(12)
           [] OTHER -> None

\* split_term_range of the texts, as <<term_start, term_end>>
split_term_range(raw) ==
    IF raw = Some("12/01/2025 - 12/01/2026")
    THEN <<Some("12/01/2025"), Some("12/01/2026")>>
    ELSE <<None, None>>

\* existing description_continuation with one more line; the lines of the
\* newline-joined text are kept as a sequence, None being no line
appended_description(existing, text) ==
    IF existing = None THEN <<text>> ELSE Append(existing, text)

\* variant: the text goes to the first item of the document
append_to_first_item(st, text) ==
    [st EXCEPT !.items[1].description_continuation =
                   appended_description(st.items[1].description_continuation, text)]

\* current_item["description_continuation"] = ...: the open item is the very
\* dict held in items, so the item in the list changes
append_to_current_item(st, text) ==
    LET k == Val(st.current_item)
    IN [st EXCEPT !.items[k].description_continuation =
                      appended_description(st.items[k].description_continuation, text)]

\* the fields of a row: through the active column map, or from the
\* positional columns c1..c8 of the row padded to min_columns
row_fields(st, normalized, min_columns) ==
    IF st.active_column_map # EmptyColumnMap
    THEN [f \in FieldSet |-> _mapped_cell(normalized, st.active_column_map, f)]
    ELSE LET padded == IF Len(normalized) < min_columns
                       THEN normalized \o [i \in 1..(min_columns - Len(normalized)) |-> None]
                       ELSE normalized
         IN [f \in FieldSet |-> padded[CHOOSE i \in 1..Len(Fields) : Fields[i] = f]]

\* variant: any row with a sku opens an item
is_item_row_sku_only(v) == ~IsNone(v["sku"])

\* if sku and any([list_unit_price_raw, net_unit_price_raw, net_total_raw])
is_item_row(v) ==
    /\ ~IsNone(v["sku"])
    /\ \E f \in {"list_unit_price", "net_unit_price", "net_total"} : ~IsNone(v[f])

\* the "TOTAL" style row: nothing but the amount of the net_total column
is_section_boundary(v) ==
    /\ \A f \in FieldSet \ {"net_total"} : IsNone(v[f])
    /\ ~IsNone(v["net_total"])

\* variant: the section counter advances at every boundary row
advance_section_always(st) ==
    [st EXCEPT !.current_item = None,
               !.quote_section_index = @ + 1,
               !.section_has_items = FALSE]

\* the body of the section boundary branch
advance_section(st) ==
    IF st.section_has_items
    THEN [st EXCEPT !.current_item = None,
                    !.quote_section_index = @ + 1,
                    !.section_has_items = FALSE]
    ELSE [st EXCEPT !.current_item = None]

\* the dict built for a primary detail row
new_item(file_name, st, v) ==
    [file |-> file_name,
     item_index |-> Len(st.items) + 1,
     service_name |-> v["service_name"],
     sku |-> v["sku"],
     units_qty |-> v["units_qty"],
     term_start |-> split_term_range(v["term"])[1],
     term_end |-> split_term_range(v["term"])[2],
     list_unit_price_raw |-> v["list_unit_price"],
     discount_pct_raw |-> v["discount_pct"],
     net_unit_price_raw |-> v["net_unit_price"],
     net_total_raw |-> v["net_total"],
     description_continuation |-> None,
     list_unit_price_value |-> parse_currency_value(v["list_unit_price"]),
     discount_pct_value |-> _parse_percent(v["discount_pct"]),
     net_unit_price_value |-> parse_currency_value(v["net_unit_price"]),
     net_total_value |-> parse_currency_value(v["net_total"]),
     quote_section_index |-> Some(st.quote_section_index)]

\* variant: the single-cell continuation is tried before the section boundary
apply_row_rules_continuation_first(file_name, st, v, normalized) ==
    LET non_empty_cells == SelectSeq(normalized, LAMBDA cell : ~IsNone(cell))
        is_continuation ==
            /\ ~IsNone(v["service_name"])
            /\ \A f \in FieldSet \ {"service_name"} : IsNone(v[f])
    IN IF ~IsNone(st.current_item) /\ Len(non_empty_cells) = 1
       THEN append_to_current_item(st, Val(non_empty_cells[1]))
       ELSE IF is_section_boundary(v) THEN advance_section(st)
       ELSE IF is_continuation /\ ~IsNone(st.current_item)
       THEN append_to_current_item(st, Val(v["service_name"]))
       ELSE IF is_item_row(v)
       THEN [st EXCEPT !.items = Append(@, new_item(file_name, st, v)),
                       !.current_item = Some(Len(st.items) + 1),
                       !.section_has_items = TRUE]
       ELSE IF ~IsNone(v["service_name"]) /\ ~IsNone(st.current_item)
       THEN append_to_current_item(st, Val(v["service_name"]))
       ELSE st

\* the row rules, in the order of the loop body, on the fields v of the row
apply_row_rules(file_name, st, v, normalized) ==
    LET non_empty_cells == SelectSeq(normalized, LAMBDA cell : ~IsNone(cell))
        is_continuation ==
            /\ ~IsNone(v["service_name"])
            /\ \A f \in FieldSet \ {"service_name"} : IsNone(v[f])
    IN IF is_section_boundary(v) THEN advance_section(st)
       ELSE IF ~IsNone(st.current_item) /\ Len(non_empty_cells) = 1
       THEN append_to_current_item(st, Val(non_empty_cells[1]))
       ELSE IF is_continuation /\ ~IsNone(st.current_item)
       THEN append_to_current_item(st, Val(v["service_name"]))
       ELSE IF is_item_row(v)
       THEN [st EXCEPT !.items = Append(@, new_item(file_name, st, v)),
                       !.current_item = Some(Len(st.items) + 1),
                       !.section_has_items = TRUE]
       ELSE IF ~IsNone(v["service_name"]) /\ ~IsNone(st.current_item)
       THEN append_to_current_item(st, Val(v["service_name"]))
       ELSE st

\* the row is restated header or legend text
is_restated_header(normalized, rules) ==
    LET expected_headers ==
            [i \in 1..Len(rules.header_contains) |-> Lower(rules.header_contains[i])]
        first_two == {expected_headers[i] : i \in {j \in 1..Len(expected_headers) : j <= 2}}
    IN \/ /\ expected_headers # <<>>
          /\ \A header \in first_two : row_text_contains(normalized, header)
       \/ /\ row_text_contains(normalized, "service/product name")
          /\ \/ row_text_contains(normalized, "code/sku")
             \/ row_text_contains(normalized, "sku")

\* one pass of the loop body of parse_line_items over a row that is a list
parse_row(file_name, st, row, rules) ==
    LET normalized == [i \in 1..Len(row) |-> _clean_cell(row[i])]
        detected_map == _detect_line_item_column_map(normalized)
    IN IF detected_map # EmptyColumnMap
       THEN [st EXCEPT !.active_column_map = detected_map]
       ELSE IF is_restated_header(normalized, rules) THEN st
       ELSE IF /\ st.active_column_map = EmptyColumnMap
               /\ Len(normalized) < Len(Fields)
               /\ rules.min_columns < Len(Fields)
       THEN [st EXCEPT !.raised = TRUE]
       ELSE apply_row_rules(file_name, st,
                            row_fields(st, normalized, rules.min_columns), normalized)

\* parse_line_items over the rows of the tables, in table and row order
RECURSIVE parse_rows(_, _, _, _)
parse_rows(file_name, st, rows, rules) ==
    IF rows = <<>> \/ st.raised THEN st
    ELSE parse_rows(file_name, parse_row(file_name, st, Head(rows), rules), Tail(rows), rules)

parse_line_items(file_name, rows, rules) ==
    parse_rows(file_name, InitialParser, rows, rules).items

\* ------------------------------------------------------------------------
\* template_fill.py: the rows of the template
\* ------------------------------------------------------------------------
TARGET_HEADERS ==
    <<"Date", "Expires", "ExpectedClose", "Item", "Quantity", "Salesprice",
      "Salesdiscount", "Purchaseprice", "PurchaseDiscount", "ContractStart",
      "ContractEnd", "Serial#Supported", "Rebate", "Opportunity", "Memo (Line)",
      "Quote ID (Line)">>

TargetHeaderSet == {TARGET_HEADERS[i] : i \in 1..Len(TARGET_HEADERS)}

\* dict.get(key): None for a key the dict does not have
Get(rec, key) == IF key \in DOMAIN rec THEN rec[key] ELSE None

\* a value of a template row or of a sheet cell is None or a Python value with
\* its type: a str, or a number
Str(x) == <<"str", x>>

Num(x) == <<"num", x>>

\* str(text or "").strip().lower() of the net unit price texts
StripLower(raw) ==
    IF IsNone(raw) THEN ""
    ELSE CASE Val(raw) = "Included" -> "included"
           [] Val(raw) = "INCLUDED" -> "included"
           [] Val(raw) = "Included in bundle" -> "included in bundle"
           [] Val(raw) = "USD 5" -> "usd 5"
           [] OTHER -> Val(raw)

\* _clean_single_line of the sku texts: runs of white space become one blank
_clean_single_line(text) ==
    IF IsNone(text) THEN None
    ELSE IF Val(text) = "NK-1  X" THEN Some("NK-1 X")
    ELSE text

\* _parse_quantity of the units texts
_parse_quantity(raw) ==
    IF raw = Some("3 Users") THEN Some(3) ELSE None

\* _parse_creation_date of the metadata's creation date
_parse_creation_date(raw) ==
    IF raw = Some("D:20250115103000Z") THEN Some("01/15/2025") ELSE None

\* discount / 100 rounded to six places, kept as the percentage it came from
_parse_discount_fraction(discount_pct_value, discount_pct_raw) ==
    IF ~IsNone(discount_pct_value) THEN Num([percent |-> Val(discount_pct_value)])
    ELSE IF ~IsNone(_parse_percent(discount_pct_raw))
    THEN Num([percent |-> Val(_parse_percent(discount_pct_raw))])
    ELSE None

\* 1 - ((purchase_price / euro_rate) * (1 + margin_percent / 100)) / sales_price,
\* kept as the four numbers it is computed from
_parse_sales_discount(sales_price, purchase_price, euro_rate, margin_percent) ==
    IF IsNone(sales_price) \/ IsNone(purchase_price) THEN None
    ELSE IF Val(sales_price) = 0 THEN None
    ELSE IF euro_rate <= 0 THEN None
    ELSE Num([sales_price |-> Val(sales_price), purchase_price |-> Val(purchase_price),
              euro_rate |-> euro_rate, margin_percent |-> margin_percent])

_parse_net_total(item) ==
    IF ~IsNone(Get(item, "net_total_value")) THEN Get(item, "net_total_value")
    ELSE parse_currency_value(Get(item, "net_total_raw"))

\* variant: only the text of the net unit price excludes an item
_should_skip_template_item_included_only(item, sales_price, net_total) ==
    StripLower(Get(item, "net_unit_price_raw")) = "included"

_should_skip_template_item(item, sales_price, net_total) ==
    \/ StripLower(Get(item, "net_unit_price_raw")) = "included"
    \/ /\ ~IsNone(net_total) /\ Val(net_total) = 0
       /\ (IsNone(sales_price) \/ Val(sales_price) = 0)

\* item.get(value_key), or parse_currency_value of item.get(raw_key) when it is None
value_or_parsed(item, value_key, raw_key) ==
    IF ~IsNone(Get(item, value_key)) THEN Get(item, value_key)
    ELSE parse_currency_value(Get(item, raw_key))

\* the row dict of an item that is kept
template_row(item, quote_id, expiration_date, creation_date, euro_rate, margin_percent) ==
    LET sales_price == value_or_parsed(item, "list_unit_price_value", "list_unit_price_raw")
        purchase_price == value_or_parsed(item, "net_unit_price_value", "net_unit_price_raw")
        TextValue(x) == IF IsNone(x) THEN None ELSE Str(Val(x))
        NumberValue(x) == IF IsNone(x) THEN None ELSE Num(Val(x))
    IN [h \in TargetHeaderSet |->
           CASE h = "Date" -> TextValue(creation_date)
             [] h \in {"Expires", "ExpectedClose"} -> TextValue(expiration_date)
             [] h = "Item" -> TextValue(_clean_single_line(Get(item, "sku")))
             [] h = "Quantity" -> NumberValue(_parse_quantity(Get(item, "units_qty")))
             [] h = "Salesprice" -> NumberValue(sales_price)
             [] h = "Salesdiscount" ->
                    _parse_sales_discount(sales_price, purchase_price, euro_rate,
                                          margin_percent)
             [] h = "Purchaseprice" -> NumberValue(purchase_price)
             [] h = "PurchaseDiscount" ->
                    _parse_discount_fraction(Get(item, "discount_pct_value"),
                                             Get(item, "discount_pct_raw"))
             [] h = "ContractStart" -> TextValue(Get(item, "term_start"))
             [] h = "ContractEnd" -> TextValue(Get(item, "term_end"))
             [] h \in {"Opportunity", "Quote ID (Line)"} -> TextValue(quote_id)
             [] OTHER -> None]

\* the rows of one file: one row per item that is not skipped
RECURSIVE template_rows_of_items(_, _, _, _, _, _)
template_rows_of_items(items, quote_id, expiration_date, creation_date, euro_rate, margin_percent) ==
    IF items = <<>> THEN <<>>
    ELSE LET item == items[1]
             sales_price ==
                 value_or_parsed(item, "list_unit_price_value", "list_unit_price_raw")
             net_total == _parse_net_total(item)
             rest == template_rows_of_items(Tail(items), quote_id, expiration_date,
                                            creation_date, euro_rate, margin_percent)
         IN IF _should_skip_template_item(item, sales_price, net_total)
            THEN rest
            ELSE <<template_row(item, quote_id, expiration_date, creation_date,
                                euro_rate, margin_percent)>> \o rest

RECURSIVE _build_template_rows(_, _, _)
_build_template_rows(payload, euro_rate, margin_percent) ==
    IF payload = <<>> THEN <<>>
    ELSE LET file_payload == payload[1]
             metadata == IF "metadata" \in DOMAIN file_payload
                         THEN file_payload.metadata ELSE [creation_date |-> None]
             fields == file_payload.business_summary
         IN template_rows_of_items(file_payload.line_items_parsed,
                                   Get(fields, "quote_number"),
                                   Get(fields, "expiration_date"),
                                   _parse_creation_date(Get(metadata, "creation_date")),
                                   euro_rate, margin_percent)
            \o _build_template_rows(Tail(payload), euro_rate, margin_percent)

\* ------------------------------------------------------------------------
\* template_fill.py: the sheet, header resolution and the fill
\* ------------------------------------------------------------------------
\* rows that _resolve_header_row_and_columns scans at most
MaxScanRow == 50

\* the normalized aliases of every target header
NORMALIZED_HEADER_ALIASES ==
    [name \in TargetHeaderSet |->
        CASE name = "Date" -> {"date"}
          [] name = "Expires" -> {"expires"}
          [] name = "ExpectedClose" -> {"expectedclose"}
          [] name = "Item" -> {"item"}
          [] name = "Quantity" -> {"quantity", "qty"}
          [] name = "Salesprice" -> {"salesprice"}
          [] name = "Salesdiscount" -> {"salesdiscount"}
          [] name = "Purchaseprice" -> {"purchaseprice"}
          [] name = "PurchaseDiscount" -> {"purchasediscount"}
          [] name = "ContractStart" -> {"contractstart"}
          [] name = "ContractEnd" -> {"contractend"}
          [] name = "Serial#Supported" -> {"serialsupported", "serial",
                                           "serialnumbersupported"}
          [] name = "Rebate" -> {"rebate"}
          [] name = "Opportunity" -> {"opportunity"}
          [] name = "Memo (Line)" -> {"memoline", "memo"}
          [] name = "Quote ID (Line)" -> {"quoteidline", "quoteid"}]

\* _normalize_header of the texts found in the sheets: trimmed, lowercased,
\* everything but letters and digits removed
_normalize_header(text) ==
    CASE text = "Notes" -> "notes"
      [] text = "Date" -> "date"
      [] text = "Expires" -> "expires"
      [] text = "ExpectedClose" -> "expectedclose"
      [] text = "Item" -> "item"
      [] text = "Qty" -> "qty"
      [] text = "Quantity" -> "quantity"
      [] text = "Sales Price" -> "salesprice"
      [] text = "Sales_Discount" -> "salesdiscount"
      [] text = "Purchase_Price" -> "purchaseprice"
      [] text = "Purchase Discount" -> "purchasediscount"
      [] text = "Contract Start" -> "contractstart"
      [] text = "Contract_End" -> "contractend"
      [] text = "Serial#Supported" -> "serialsupported"
      [] text = "Rebate" -> "rebate"
      [] text = "Opportunity" -> "opportunity"
      [] text = "Memo (Line)" -> "memoline"
      [] text = "Quote ID (Line)" -> "quoteidline"
      [] OTHER -> text

\* a sheet is `lead` blank rows followed by the rows of `body`
max_row(sheet) == sheet.lead + Len(sheet.body)

\* ws.cell(row_idx, col_idx).value
cell_value(sheet, row_idx, col_idx) ==
    IF row_idx <= sheet.lead \/ row_idx > max_row(sheet) THEN None
    ELSE sheet.body[row_idx - sheet.lead][col_idx]

\* the smallest number of a non-empty set of rows or columns
smallest(number_set) == CHOOSE r \in number_set : \A q \in number_set : r <= q

\* the loop over the columns gives a target header the first column whose text
\* (a str cell) normalizes to one of its aliases; the columns are those of the
\* sheet's rows
_match_headers_in_row(sheet, header_row) ==
    LET text_columns == {c \in 1..Len(sheet.body[1]) :
                            /\ ~IsNone(cell_value(sheet, header_row, c))
                            /\ cell_value(sheet, header_row, c)[1] = "str"}
        targets_of(c) ==
            LET normalized == _normalize_header(cell_value(sheet, header_row, c)[2])
            IN {name \in TargetHeaderSet : normalized \in NORMALIZED_HEADER_ALIASES[name]}
        matched == UNION {{<<name, c>> : name \in targets_of(c)} : c \in text_columns}
    IN [name \in {p[1] : p \in matched} |->
           smallest({p[2] : p \in {q \in matched : q[1] = name}})]

\* variant: a row with any target header is taken as the header row
all_headers_found_some(headers) == DOMAIN headers # {}

\* all(name in headers for name in TARGET_HEADERS)
all_headers_found(headers) == \A name \in TargetHeaderSet : name \in DOMAIN headers

\* the loop over rows 1..max_scan_row: it returns at the first row with all
\* headers; when there is none, best_row is the first row that has more matches
\* than every row before it and at least as many as every row after it (None
\* when no row has a match), and the error names the headers it lacks
scan_header_rows(sheet, max_scan_row) ==
    LET row_headers == {[row |-> r, headers |-> _match_headers_in_row(sheet, r)] :
                           r \in 1..max_scan_row}
        most == CHOOSE n \in {Cardinality(DOMAIN m.headers) : m \in row_headers} \cup {0} :
                    \A m \in row_headers : Cardinality(DOMAIN m.headers) <= n
        complete == {m.row : m \in {k \in row_headers : all_headers_found(k.headers)}}
        best == {m.row : m \in {k \in row_headers :
                                    /\ most > 0
                                    /\ Cardinality(DOMAIN k.headers) = most}}
    IN IF complete # {}
       THEN [raised |-> FALSE, header_row |-> smallest(complete),
             header_columns |-> _match_headers_in_row(sheet, smallest(complete))]
       ELSE IF best # {}
       THEN [raised |-> TRUE, best_row |-> Some(smallest(best)),
             missing |-> SelectSeq(TARGET_HEADERS, LAMBDA name :
                            name \notin DOMAIN _match_headers_in_row(sheet, smallest(best)))]
       ELSE [raised |-> TRUE, best_row |-> None, missing |-> TARGET_HEADERS]

_resolve_header_row_and_columns(sheet, header_row) ==
    IF /\ ~IsNone(header_row)
       /\ all_headers_found(_match_headers_in_row(sheet, Val(header_row)))
    THEN [raised |-> FALSE, header_row |-> Val(header_row),
          header_columns |-> _match_headers_in_row(sheet, Val(header_row))]
    ELSE scan_header_rows(sheet, IF max_row(sheet) <= MaxScanRow THEN max_row(sheet)
                                 ELSE MaxScanRow)

\* variant: any data start row is accepted
data_start_row_rejected_never(data_start_row, header_row) == FALSE

\* resolved_data_start_row <= resolved_header_row
data_start_row_rejected(data_start_row, header_row) == data_start_row <= header_row

\* variant: no row is cleared
rows_to_clear_none(data_start_row, last_row) == {}

\* range(resolved_data_start_row, ws.max_row + 1)
rows_to_clear(data_start_row, last_row) == data_start_row..last_row

\* lines 276-305, the checks that raise ValueError, in their order: the rates,
\* the sheet of the loaded workbook, the header row, the data start row and the
\* capacity for the rows built from the payload
PrepareFill ==
    /\ fpc = "open"
    /\ LET found == _resolve_header_row_and_columns(ws, fill_args.header_row)
           resolved_data_start_row ==
               IF IsNone(fill_args.data_start_row) THEN found.header_row + 1
               ELSE Val(fill_args.data_start_row)
           rows_to_write == _build_template_rows(fill_payload, Val(fill_args.euro_rate),
                                                 Val(fill_args.margin_percent))
           capacity == max_row(ws) - resolved_data_start_row + 1
           layout == Some([header_row |-> found.header_row,
                           header_columns |-> found.header_columns,
                           data_start_row |-> resolved_data_start_row,
                           capacity |-> capacity])
       IN IF IsNone(fill_args.euro_rate) \/ Val(fill_args.euro_rate) <= 0
          THEN /\ fill_outcome' = Some([raised |-> TRUE, error |-> "euro_rate"])
               /\ UNCHANGED <<resolved, template_rows>>
          ELSE IF IsNone(fill_args.margin_percent)
          THEN /\ fill_outcome' = Some([raised |-> TRUE, error |-> "margin_percent"])
               /\ UNCHANGED <<resolved, template_rows>>
          ELSE IF ~fill_args.sheet_found
          THEN /\ fill_outcome' = Some([raised |-> TRUE, error |-> "sheet"])
               /\ UNCHANGED <<resolved, template_rows>>
          ELSE IF found.raised
          THEN /\ fill_outcome' = Some([raised |-> TRUE, error |-> "headers",
                                        best_row |-> found.best_row,
                                        missing |-> found.missing])
               /\ UNCHANGED <<resolved, template_rows>>
          ELSE IF data_start_row_rejected(resolved_data_start_row, found.header_row)
          THEN /\ fill_outcome' = Some([raised |-> TRUE, error |-> "data_start_row"])
               /\ resolved' = layout
               /\ UNCHANGED template_rows
          ELSE IF Len(rows_to_write) > capacity
          THEN /\ fill_outcome' = Some([raised |-> TRUE, error |-> "capacity"])
               /\ resolved' = layout
               /\ template_rows' = Some(rows_to_write)
          ELSE /\ fill_outcome' = fill_outcome
               /\ resolved' = layout
               /\ template_rows' = Some(rows_to_write)
    /\ fpc' = IF IsNone(fill_outcome') THEN "clear" ELSE "raised"
    /\ UNCHANGED <<fill_payload, fill_args, template_sheet, ws, saved_output,
                   vvars, svars, pvars, qvars, cvars, nvars, uvars, evars>>

\* lines 308-310: the mapped columns of the rows to clear are set to None
ClearTargetColumns ==
    /\ fpc = "clear"
    /\ LET row_set == rows_to_clear(Val(resolved).data_start_row, max_row(ws))
           column_set == {Val(resolved).header_columns[name] :
                             name \in DOMAIN Val(resolved).header_columns}
       IN ws' = [ws EXCEPT !.body =
                    [i \in 1..Len(ws.body) |->
                        IF ws.lead + i \in row_set
                        THEN [c \in 1..Len(ws.body[i]) |->
                                 IF c \in column_set THEN None ELSE ws.body[i][c]]
                        ELSE ws.body[i]]]
    /\ fpc' = "fill"
    /\ UNCHANGED <<fill_payload, fill_args, template_sheet, resolved, template_rows,
                   saved_output, fill_outcome, vvars, svars, pvars, qvars, cvars, nvars, uvars, evars>>

\* lines 313-321: every row to write is put into the mapped columns, the first
\* at the data start row
FillRows ==
    /\ fpc = "fill"
    /\ LET header_columns == Val(resolved).header_columns
           rows_to_write == Val(template_rows)
       IN ws' = [ws EXCEPT !.body =
                    [i \in 1..Len(ws.body) |->
                        LET offset == ws.lead + i - Val(resolved).data_start_row
                        IN IF offset >= 0 /\ offset < Len(rows_to_write)
                           THEN [c \in 1..Len(ws.body[i]) |->
                                    IF \E name \in DOMAIN header_columns :
                                          header_columns[name] = c
                                    THEN rows_to_write[offset + 1][
                                             CHOOSE name \in DOMAIN header_columns :
                                                 header_columns[name] = c]
                                    ELSE ws.body[i][c]]
                           ELSE ws.body[i]]]
    /\ fpc' = "save"
    /\ UNCHANGED <<fill_payload, fill_args, template_sheet, resolved, template_rows,
                   saved_output, fill_outcome, vvars, svars, pvars, qvars, cvars, nvars, uvars, evars>>

\* lines 323-334
SaveWorkbook ==
    /\ fpc = "save"
    /\ saved_output' = Some(ws)
    /\ fill_outcome' = Some([raised |-> FALSE,
                             rows_written |-> Len(Val(template_rows)),
                             capacity |-> Val(resolved).capacity,
                             header_row |-> Val(resolved).header_row,
                             data_start_row |-> Val(resolved).data_start_row])
    /\ fpc' = "returned"
    /\ UNCHANGED <<fill_payload, fill_args, template_sheet, ws, resolved, template_rows,
                   vvars, svars, pvars, qvars, cvars, nvars, uvars, evars>>

\* fill_quote_template as run_pipeline sees it, called with a euro rate of 1
\* and a margin of 0: None when the rows exceed the
\* capacity of the sheet (ValueError), else the summary returned and the rows
\* written
fill_quote_template(capacity, payload) ==
    LET rows_to_write ==
            _build_template_rows(payload, 1, 0)
    IN IF Len(rows_to_write) > capacity THEN None
       ELSE Some([rows_written |-> Len(rows_to_write), capacity |-> capacity,
                  rows |-> rows_to_write])

\* ------------------------------------------------------------------------
\* pipeline.py
\* ------------------------------------------------------------------------
\* the validation_report of a document that raised
_error_rows(file_name, message) ==
    <<[rule_id |-> "processing_error", severity |-> "critical", status |-> "FAIL",
       observed_value |-> Some(message)]>>

\* extract_business_summary, as far as the totals go
extract_business_summary(doc, items) ==
    [quote_number |-> Some(doc.file),
     total_value |-> doc.total_value,
     overall_total_value |-> doc.overall_total_value,
     line_items_total_value |-> IF items = <<>> THEN None ELSE Some(sum_net_total(items)),
     error |-> None]

\* the except branch: process_one_pdf returns the synthetic record and True
error_is_strict_failure(is_strict) == TRUE

\* a summary total that is not recomputed after the reconciliation
recomputed_line_items_total_stale(items, reconciled_line_items) ==
    IF items = <<>> THEN None ELSE Some(sum_net_total(items))

\* business_summary["line_items_total_value"], recomputed from the reconciled
\* items that replaced line_items
recomputed_line_items_total(items, reconciled_line_items) ==
    IF reconciled_line_items = <<>> THEN None
    ELSE Some(sum_net_total(reconciled_line_items))

process_one_pdf(doc, cfg, is_strict) ==
    IF ~IsNone(doc.exc)
    THEN [per_file_json |->
              [file |-> doc.file,
               line_items_parsed |-> <<>>,
               business_summary |->
                   [quote_number |-> None, total_value |-> None,
                    overall_total_value |-> None, line_items_total_value |-> None,
                    error |-> doc.exc],
               validation_report |-> _error_rows(doc.file, Val(doc.exc)),
               error |-> doc.exc],
          is_strict_failure |-> error_is_strict_failure(is_strict)]
    ELSE LET items == doc.line_items
             summary0 == extract_business_summary(doc, items)
             reconciled_line_items ==
                 select_line_items_for_total(items, summary0.total_value, cfg.money_tolerance)
             summary ==
                 [summary0 EXCEPT !.line_items_total_value =
                      recomputed_line_items_total(items, reconciled_line_items)]
             validation == run_validation(doc.raw_result, Len(items), summary, cfg)
         IN [per_file_json |->
                 [file |-> doc.file,
                  line_items_parsed |-> items,
                  business_summary |-> summary,
                  validation_report |-> validation.report,
                  error |-> None],
             is_strict_failure |-> (is_strict /\ validation.critical_failed)]

\* ------------------------------------------------------------------------
\* Inputs of run_pipeline
\* ------------------------------------------------------------------------
\* the sku of the i-th item of a document
SkuTexts == <<"NK-1", "NK-2", "NK-3", "NK-4">>

PricedItem(i, sec, net) ==
    [item_index |-> i, sku |-> Some(SkuTexts[i]), quote_section_index |-> Some(sec),
     net_total_value |-> Some(net), net_unit_price_raw |-> Some("USD 5"),
     list_unit_price_value |-> Some(net)]

GoodRawResult ==
    [pages |-> <<[page |-> 1, word_count |-> 1]>>, text_words |-> 1, tables_raw |-> 1,
     links |-> 0]

\* ------------------------------------------------------------------------
\* Spec: run_pipeline, run twice on the same inputs
\* ------------------------------------------------------------------------
Init ==
    LET IncludedItem(i, sec) ==
            [item_index |-> i, sku |-> Some(SkuTexts[i]), quote_section_index |-> Some(sec),
             net_total_value |-> Some(0), net_unit_price_raw |-> Some("Included"),
             list_unit_price_value |-> Some(0)]
        \* what parse_line_items returned for a document: nothing, one section, or two
        \* sections of which the first sums to 5 and the second to 2
        ParsedItemLists ==
            { <<>>,
              <<PricedItem(1, 1, 5)>>,
              <<PricedItem(1, 1, 5), IncludedItem(2, 1), PricedItem(3, 2, 2)>> }
        \* a document as the extraction and parsing steps see it, its file name apart;
        \* exc names the step that raises, if one does
        DocumentShapes ==
            [exc : {None}, raw_result : {GoodRawResult},
             line_items : ParsedItemLists,
             total_value : {None, Some(5)},
             overall_total_value : {None, Some(5)}]
            \cup
            [exc : {Some("extract_pdf_raw"), Some("parse_line_items")},
             raw_result : {GoodRawResult}, line_items : {<<>>}, total_value : {None},
             overall_total_value : {None}]
        Document(f, shape) ==
            [file |-> f, exc |-> shape.exc, raw_result |-> shape.raw_result,
             line_items |-> shape.line_items, total_value |-> shape.total_value,
             overall_total_value |-> shape.overall_total_value]
        \* batches of at least one document; document i has file name i
        PdfLists ==
            UNION {{[i \in 1..n |-> Document(i, shape[i])] : shape \in [1..n -> DocumentShapes]}
                   : n \in 1..MaxPdfs}
        RunConfigs ==
            [money_tolerance : {MoneyTolerance}, critical_rules : {{}, DefaultCriticalRules}]
    IN
    /\ pdfs \in PdfLists
    /\ run_config \in RunConfigs
    /\ template \in Optional(0..MaxCapacity)
    /\ write_audit_workbook \in BOOLEAN
    /\ strict = [r \in Runs |-> r = 2]
    /\ files_payload = [r \in Runs |-> <<>>]
    /\ rows_by_sheet = [r \in Runs |-> [line_items_parsed |-> <<>>, validation_report |-> <<>>]]
    /\ strict_failures = [r \in Runs |-> FALSE]
    /\ written = [r \in Runs |-> {}]
    /\ template_output = [r \in Runs |-> None]
    /\ exit_code = [r \in Runs |-> None]
    /\ pc = [r \in Runs |-> "loop"]
    /\ OthersIdle("pipeline")

Returned(r) == pc[r] \in {"done", "raised"}

\* if write_audit_workbook: write_excel(...)
AuditWritten == IF write_audit_workbook THEN {"audit"} ELSE {}

\* the second run starts once the first has ended
MayRun(r) == pc[r] = "loop" /\ (r = 1 \/ Returned(1))

\* variant: no isolation, a document that raises ends the run
ProcessOnePdf_abort_on_error(r) ==
    /\ MayRun(r)
    /\ Len(files_payload[r]) < Len(pdfs)
    /\ LET doc == pdfs[Len(files_payload[r]) + 1]
           res == process_one_pdf(doc, run_config, strict[r])
           rec == res.per_file_json
       IN IF ~IsNone(doc.exc)
          THEN /\ pc' = [pc EXCEPT ![r] = "raised"]
               /\ UNCHANGED <<files_payload, strict_failures, rows_by_sheet>>
          ELSE /\ files_payload' = [files_payload EXCEPT ![r] = Append(@, rec)]
               /\ strict_failures' = [strict_failures EXCEPT ![r] = @ \/ res.is_strict_failure]
               /\ rows_by_sheet' =
                      [rows_by_sheet EXCEPT
                           ![r].line_items_parsed = @ \o rec.line_items_parsed,
                           ![r].validation_report = @ \o rec.validation_report]
               /\ UNCHANGED pc
    /\ UNCHANGED <<pdfs, run_config, template, write_audit_workbook, strict, written,
                   template_output,
                   exit_code, vvars, svars, qvars, cvars, tvars, nvars, uvars, evars>>

\* one iteration of the loop over pdfs
ProcessOnePdf(r) ==
    /\ MayRun(r)
    /\ Len(files_payload[r]) < Len(pdfs)
    /\ LET doc == pdfs[Len(files_payload[r]) + 1]
           res == process_one_pdf(doc, run_config, strict[r])
           rec == res.per_file_json
       IN /\ files_payload' = [files_payload EXCEPT ![r] = Append(@, rec)]
          /\ strict_failures' = [strict_failures EXCEPT ![r] = @ \/ res.is_strict_failure]
          /\ rows_by_sheet' =
                 [rows_by_sheet EXCEPT
                      ![r].line_items_parsed = @ \o rec.line_items_parsed,
                      ![r].validation_report = @ \o rec.validation_report]
    /\ UNCHANGED <<pdfs, run_config, template, write_audit_workbook, strict, written,
                   template_output,
                   exit_code, pc, vvars, svars, qvars, cvars, tvars, nvars, uvars, evars>>

\* variant: a strict failure returns 2 before anything is written
WriteOutputs_strict_aborts(r) ==
    /\ MayRun(r)
    /\ Len(files_payload[r]) = Len(pdfs)
    /\ LET filled == IF IsNone(template) THEN None
                     ELSE fill_quote_template(Val(template), files_payload[r])
       IN IF strict_failures[r]
          THEN /\ exit_code' = [exit_code EXCEPT ![r] = Some(2)]
               /\ pc' = [pc EXCEPT ![r] = "done"]
               /\ UNCHANGED <<written, template_output>>
          ELSE IF ~IsNone(template) /\ IsNone(filled)
          THEN /\ written' = [written EXCEPT ![r] = AuditWritten]
               /\ pc' = [pc EXCEPT ![r] = "raised"]
               /\ UNCHANGED <<template_output, exit_code>>
          ELSE /\ written' = [written EXCEPT ![r] =
                      AuditWritten \cup {"json"} \cup (IF IsNone(template) THEN {} ELSE {"template"})]
               /\ template_output' = [template_output EXCEPT ![r] = filled]
               /\ exit_code' = [exit_code EXCEPT ![r] = Some(0)]
               /\ pc' = [pc EXCEPT ![r] = "done"]
    /\ UNCHANGED <<pdfs, run_config, template, write_audit_workbook, strict,
                   files_payload, rows_by_sheet,
                   strict_failures, vvars, svars, qvars, cvars, tvars, nvars, uvars, evars>>

\* after the loop: write_excel, fill_quote_template, write_json, return
WriteOutputs(r) ==
    /\ MayRun(r)
    /\ Len(files_payload[r]) = Len(pdfs)
    /\ LET filled == IF IsNone(template) THEN None
                     ELSE fill_quote_template(Val(template), files_payload[r])
       IN IF ~IsNone(template) /\ IsNone(filled)
          THEN \* fill_quote_template raised, after write_excel and before write_json
               /\ written' = [written EXCEPT ![r] = AuditWritten]
               /\ pc' = [pc EXCEPT ![r] = "raised"]
               /\ UNCHANGED <<template_output, exit_code>>
          ELSE /\ written' = [written EXCEPT ![r] =
                      AuditWritten \cup {"json"} \cup (IF IsNone(template) THEN {} ELSE {"template"})]
               /\ template_output' = [template_output EXCEPT ![r] = filled]
               /\ exit_code' = [exit_code EXCEPT ![r] =
                      IF strict_failures[r] THEN Some(2) ELSE Some(0)]
               /\ pc' = [pc EXCEPT ![r] = "done"]
    /\ UNCHANGED <<pdfs, run_config, template, write_audit_workbook, strict,
                   files_payload, rows_by_sheet,
                   strict_failures, vvars, svars, qvars, cvars, tvars, nvars, uvars, evars>>

Next == \E r \in Runs : ProcessOnePdf(r) \/ WriteOutputs(r)

Spec == Init /\ [][Next]_vars

\* ------------------------------------------------------------------------
\* Inputs of parse_line_items
\* ------------------------------------------------------------------------
FileName == "quote.pdf"

\* a row of eight cells with the data text of every field of present
DataRow(present) ==
    LET DataTexts ==
            [service_name |-> "Widget", sku |-> "NK-A", units_qty |-> "3 Users",
             term |-> "12/01/2025 - 12/01/2026", list_unit_price |-> "USD 2",
             discount_pct |-> "10.00", net_unit_price |-> "Included", net_total |-> "USD 5"]
    IN
    [i \in 1..Len(Fields) |->
        IF Fields[i] \in present THEN Some(DataTexts[Fields[i]]) ELSE None]

\* a header row whose columns hold the header texts of the given fields
HeaderRow(order) ==
    LET
        \* Cell texts are taken from a fixed alphabet: the eight header texts of the
        \* quote tables, one data text per field, a free text and a blank.  What the
        \* string functions of the parser do to a text is tabulated per text.
        HeaderTexts ==
            [service_name |-> "Service/Product Name", sku |-> "Service/Product Code/SKU",
             units_qty |-> "Units/Quantity", term |-> "Term",
             list_unit_price |-> "List Unit Price", discount_pct |-> "Discount (%)",
             net_unit_price |-> "Net Unit Price", net_total |-> "Net Total"]
    IN
    [i \in 1..Len(order) |-> Some(HeaderTexts[order[i]])]

TableRows ==
    LET
        \* the header of the quote tables with the columns in another order
        ReorderedFields ==
            <<"sku", "service_name", "net_total", "units_qty", "term", "list_unit_price",
              "discount_pct", "net_unit_price">>
        \* the sets of fields a data row may have text in
        PresenceSets ==
            (SUBSET {"service_name", "sku", "list_unit_price", "net_total"})
                \cup {FieldSet, {"term"}, {"sku", "net_unit_price"}, {"units_qty", "net_total"},
                      {"service_name", "units_qty"}}
        \* rows that are not plain data rows: headers, partial headers, legend text,
        \* a short row, a row with a ninth cell, rows with blank cells
        OtherRows ==
            {HeaderRow(Fields),
             HeaderRow(ReorderedFields),
             HeaderRow(<<"sku", "service_name", "net_total">>),
             [HeaderRow(Fields) EXCEPT ![4] = Some("Term Discount"), ![6] = None],
             HeaderRow(<<"service_name", "sku">>),
             HeaderRow(<<"service_name">>),
             <<Some("more detail")>>,
             DataRow({}) \o <<Some("more detail")>>,
             [DataRow({"net_total"}) EXCEPT ![1] = Some(" ")],
             [DataRow({}) EXCEPT ![1] = Some(" "), ![3] = Some("more detail")],
             <<>>}
    IN
    {DataRow(present) : present \in PresenceSets} \cup OtherRows

\* the configured rules: the defaults, and no header_contains at all
LineItemRules ==
    {[header_contains |-> h, min_columns |-> DefaultMinColumns] :
        h \in {DefaultHeaderContains, <<>>}}

\* ------------------------------------------------------------------------
\* SpecParse: parse_line_items, one row of the document's tables at a time
\* ------------------------------------------------------------------------
InitParse ==
    /\ line_item_rules \in LineItemRules
    /\ table_row = None
    /\ parser = InitialParser
    /\ rows_done = 0
    /\ column_order = IdentityOrder
    /\ reordered_parser = InitialParser
    /\ documents_done = <<>>
    /\ alone_parser = InitialParser
    /\ OthersIdle("parser")

ParseRow(row) ==
    /\ documents_done = <<>>
    /\ rows_done < MaxRows
    /\ ~parser.raised
    /\ parser' = parse_row(FileName, parser, row, line_item_rules)
    /\ table_row' = Some(row)
    /\ rows_done' = rows_done + 1
    /\ UNCHANGED <<line_item_rules, column_order, reordered_parser, documents_done, alone_parser, vvars, svars, pvars, cvars, tvars, nvars, uvars, evars>>

NextParse == \E row \in TableRows : ParseRow(row)

SpecParse == InitParse /\ [][NextParse]_vars

\* ------------------------------------------------------------------------
\* SpecPositional: parse_line_items over rows of any length with no header
\* row among them, for any configured min_columns
\* ------------------------------------------------------------------------
\* a full data row with a ninth cell, cut after its first cells, and rows with
\* a single text
PositionalRows ==
    {SubSeq(DataRow(FieldSet) \o <<Some("more detail")>>, 1, n) : n \in {0, 2, 5, 8, 9}}
        \cup {<<Some("more detail")>>, DataRow({"net_total"}),
              SubSeq(DataRow({"sku"}), 1, 7)}

InitPositional ==
    /\ \E min_columns \in 0..MaxColumns :
          line_item_rules = [header_contains |-> DefaultHeaderContains,
                             min_columns |-> min_columns]
    /\ table_row = None
    /\ parser = InitialParser
    /\ rows_done = 0
    /\ column_order = IdentityOrder
    /\ reordered_parser = InitialParser
    /\ documents_done = <<>>
    /\ alone_parser = InitialParser
    /\ OthersIdle("parser")

SpecPositional == InitPositional /\ [][\E row \in PositionalRows : ParseRow(row)]_vars

\* ------------------------------------------------------------------------
\* SpecDocuments: a run over two documents, and the second document alone
\* ------------------------------------------------------------------------
\* variant: the loop state of the call before is the state the call starts in
new_parser_kept(previous) == previous

\* items, current_item, quote_section_index, section_has_items and
\* active_column_map are locals of parse_line_items, set anew in every call
new_parser(previous) == InitialParser

\* process_one_pdf of the next document of the run calls parse_line_items
\* again, also when the call before ended with an exception
StartNextDocument ==
    /\ documents_done = <<>>
    /\ documents_done' = <<parser>>
    /\ parser' = new_parser(parser)
    /\ table_row' = None
    /\ UNCHANGED <<line_item_rules, rows_done, column_order, reordered_parser, alone_parser, vvars, svars, pvars, cvars, tvars, nvars, uvars, evars>>

\* a row of the second document, in the run and alone
ParseRowOfNext(row) ==
    /\ documents_done # <<>>
    /\ rows_done < MaxRows
    /\ ~parser.raised
    /\ ~alone_parser.raised
    /\ parser' = parse_row("second.pdf", parser, row, line_item_rules)
    /\ alone_parser' = parse_row("second.pdf", alone_parser, row, line_item_rules)
    /\ table_row' = Some(row)
    /\ rows_done' = rows_done + 1
    /\ UNCHANGED <<line_item_rules, column_order, reordered_parser, documents_done, vvars, svars, pvars, cvars, tvars, nvars, uvars, evars>>

NextDocuments ==
    LET \* a header with its columns in another order, item, boundary and
        \* continuation rows, and a short row
        DocumentRows ==
            {HeaderRow(<<"sku", "service_name", "net_total">>), DataRow(FieldSet),
             DataRow({"net_total"}), DataRow({"service_name"}), <<Some("more detail")>>,
             SubSeq(DataRow(FieldSet), 1, 5)}
    IN \/ \E row \in DocumentRows : ParseRow(row)
       \/ StartNextDocument
       \/ \E row \in DocumentRows : ParseRowOfNext(row)

SpecDocuments == InitPositional /\ [][NextDocuments]_vars

\* ------------------------------------------------------------------------
\* SpecReorder: parse_line_items over a table with its header, and over the
\* same table with the columns of every row laid out in another order
\* ------------------------------------------------------------------------

\* the row with its columns laid out in the given order
Reordered(row, order) == [c \in 1..Len(row) |-> row[order[c]]]

\* the data rows of the table
ReorderRows ==
    {DataRow(present) :
        present \in {FieldSet, {"service_name"}, {"net_total"}, {"term"},
                     {"sku", "net_unit_price"}, {"service_name", "units_qty"}}}

InitReorder ==
    LET
        \* the orders that move at most MaxMoved of the eight columns
        ColumnOrder(moved, shuffle) ==
            [c \in 1..Len(Fields) |-> IF c \in moved THEN shuffle[c] ELSE c]
    IN
    /\ line_item_rules \in LineItemRules
    /\ table_row = None
    /\ parser = InitialParser
    /\ rows_done = 0
    /\ \E moved \in SUBSET (1..Len(Fields)) :
          /\ Cardinality(moved) <= MaxMoved
          /\ \E shuffle \in [moved -> moved] :
                /\ \A a, b \in moved : shuffle[a] = shuffle[b] => a = b
                /\ column_order = ColumnOrder(moved, shuffle)
    /\ reordered_parser = InitialParser
    /\ documents_done = <<>>
    /\ alone_parser = InitialParser
    /\ OthersIdle("parser")

\* the first row of the table is its header
ReorderHeader ==
    /\ rows_done = 0
    /\ parser' = parse_row(FileName, parser, HeaderRow(Fields), line_item_rules)
    /\ reordered_parser' =
           parse_row(FileName, reordered_parser,
                     Reordered(HeaderRow(Fields), column_order), line_item_rules)
    /\ table_row' = Some(HeaderRow(Fields))
    /\ rows_done' = 1
    /\ UNCHANGED <<line_item_rules, column_order, documents_done, alone_parser, vvars, svars, pvars, cvars, tvars, nvars, uvars, evars>>

ReorderRow(row) ==
    /\ rows_done >= 1
    /\ rows_done < MaxRows
    /\ parser' = parse_row(FileName, parser, row, line_item_rules)
    /\ reordered_parser' =
           parse_row(FileName, reordered_parser, Reordered(row, column_order),
                     line_item_rules)
    /\ table_row' = Some(row)
    /\ rows_done' = rows_done + 1
    /\ UNCHANGED <<line_item_rules, column_order, documents_done, alone_parser, vvars, svars, pvars, cvars, tvars, nvars, uvars, evars>>

NextReorder == ReorderHeader \/ \E row \in ReorderRows : ReorderRow(row)

SpecReorder == InitReorder /\ [][NextReorder]_vars

\* ========================================================================
\* extract_business_summary: the currency (business.py, normalize.py)
\* ========================================================================

RawTotalTexts ==
    LET
        \* A raw total is known by what parse_currency_code looks at: whether the text
        \* is empty, and which currency markers occur in it.  An ISO code stands for
        \* its occurrence in any case (the code is looked up in raw.upper()); the
        \* mis-decoded pound sign contains the pound sign and is not told apart.
        CurrencyMarkers == {"USD", "dollar sign", "EUR", "euro sign", "mis-decoded euro sign",
                            "GBP", "pound sign"}
    IN
    {[empty |-> TRUE, markers |-> {}]}
        \cup {[empty |-> FALSE, markers |-> m] : m \in SUBSET CurrencyMarkers}

parse_currency_code(raw, default_currency) ==
    IF IsNone(raw) \/ Val(raw).empty THEN None
    ELSE IF {"USD", "dollar sign"} \cap Val(raw).markers # {} THEN Some("USD")
    ELSE IF {"EUR", "euro sign", "mis-decoded euro sign"} \cap Val(raw).markers # {}
    THEN Some("EUR")
    ELSE IF {"GBP", "pound sign"} \cap Val(raw).markers # {} THEN Some("GBP")
    ELSE Some(default_currency)

\* total_raw or overall_total_raw
first_truthy(a, b) == IF IsNone(a) \/ Val(a).empty THEN b ELSE a

\* summary["currency"] of extract_business_summary
summary_currency(text, cfg) ==
    parse_currency_code(first_truthy(text.total_raw, text.overall_total_raw),
                        cfg.currency_default)

\* ------------------------------------------------------------------------
\* SpecSummary: extract_business_summary applied to bounded inputs
\* ------------------------------------------------------------------------
InitSummary ==
    /\ full_text \in [total_raw : Optional(RawTotalTexts),
                      overall_total_raw : Optional(RawTotalTexts)]
    /\ normalization \in [currency_default : {DefaultCurrency, "CAD"}]
    /\ extracted_summary = None
    /\ OthersIdle("summary")

ExtractBusinessSummary ==
    /\ extracted_summary = None
    /\ extracted_summary' =
           Some([total_raw |-> full_text.total_raw,
                 overall_total_raw |-> full_text.overall_total_raw,
                 currency |-> summary_currency(full_text, normalization),
                 error |-> None])
    /\ UNCHANGED <<full_text, normalization, vvars, svars, pvars, qvars, tvars, nvars, uvars, evars>>

SpecSummary == InitSummary /\ [][ExtractBusinessSummary]_vars

\* ------------------------------------------------------------------------
\* Inputs of _build_template_rows
\* ------------------------------------------------------------------------
\* the price fields of an item: a billable item, items priced "Included" in
\* several spellings, items with a zero or missing net total, and an item dict
\* that has the raw texts only
ItemPrices ==
    {[list_unit_price_raw |-> Some("USD 2"), list_unit_price_value |-> Some(2),
      net_unit_price_raw |-> Some("USD 5"), net_unit_price_value |-> Some(5),
      net_total_raw |-> Some("USD 5"), net_total_value |-> Some(5)],
     [list_unit_price_raw |-> None, list_unit_price_value |-> None,
      net_unit_price_raw |-> Some("Included"), net_unit_price_value |-> None,
      net_total_raw |-> Some("USD 0.00"), net_total_value |-> Some(0)],
     [list_unit_price_raw |-> Some("USD 2"), list_unit_price_value |-> Some(2),
      net_unit_price_raw |-> Some("INCLUDED"), net_unit_price_value |-> None,
      net_total_raw |-> Some("USD 5"), net_total_value |-> Some(5)],
     [list_unit_price_raw |-> Some("USD 2"), list_unit_price_value |-> Some(2),
      net_unit_price_raw |-> Some("Included in bundle"), net_unit_price_value |-> None,
      net_total_raw |-> Some("USD 5"), net_total_value |-> Some(5)],
     [list_unit_price_raw |-> None, list_unit_price_value |-> None,
      net_unit_price_raw |-> Some("USD 5"), net_unit_price_value |-> Some(5),
      net_total_raw |-> Some("USD 0.00"), net_total_value |-> Some(0)],
     [list_unit_price_raw |-> Some("USD 0.00"), list_unit_price_value |-> Some(0),
      net_unit_price_raw |-> None, net_unit_price_value |-> None,
      net_total_raw |-> Some("USD 0.00"), net_total_value |-> Some(0)],
     [list_unit_price_raw |-> Some("USD 2"), list_unit_price_value |-> Some(2),
      net_unit_price_raw |-> None, net_unit_price_value |-> None,
      net_total_raw |-> Some("USD 0.00"), net_total_value |-> Some(0)],
     [list_unit_price_raw |-> None, list_unit_price_value |-> None,
      net_unit_price_raw |-> Some("USD 5"), net_unit_price_value |-> Some(5),
      net_total_raw |-> None, net_total_value |-> None],
     [list_unit_price_raw |-> None, net_unit_price_raw |-> Some("USD 5"),
      net_total_raw |-> Some("USD 0.00")]}

\* the payload of two files, with the fields the template reads: the first
\* split of the n items in the first file, the rest in the second
TwoFilePayload(n, prices, split) ==
    LET TemplateItem(i) ==
            [f \in {"item_index", "sku", "units_qty", "term_start", "term_end",
                    "discount_pct_raw", "discount_pct_value"} \cup DOMAIN prices[i] |->
                CASE f = "item_index" -> i
                  [] f = "sku" -> Some(SkuTexts[i])
                  [] f = "units_qty" -> Some("3 Users")
                  [] f = "term_start" -> Some("12/01/2025")
                  [] f = "term_end" -> Some("12/01/2026")
                  [] f = "discount_pct_raw" -> Some("10.00")
                  [] f = "discount_pct_value" -> Some(10)
                  [] OTHER -> prices[i][f]]
        items == [i \in 1..n |-> TemplateItem(i)]
        FilePayload(quote_number, file_items) ==
            [metadata |-> [creation_date |-> Some("D:20250115103000Z")],
             business_summary |-> [quote_number |-> Some(quote_number),
                                   expiration_date |-> Some("01/31/2026")],
             line_items_parsed |-> file_items]
    IN <<FilePayload("Q-1", SubSeq(items, 1, split)),
         FilePayload("Q-2", SubSeq(items, split + 1, n))>>

\* ------------------------------------------------------------------------
\* SpecTemplateRows: _build_template_rows applied to bounded payloads
\* ------------------------------------------------------------------------
InitTemplateRows ==
    /\ \E n \in 0..MaxTemplateItems : \E prices \in [1..n -> ItemPrices] :
          \E split \in 0..n : fill_payload = TwoFilePayload(n, prices, split)
    /\ fill_args = [euro_rate |-> Some(1), margin_percent |-> Some(0), sheet_found |-> TRUE,
                    header_row |-> None, data_start_row |-> None]
    /\ template_sheet = [lead |-> 0, body |-> <<>>]
    /\ ws = template_sheet
    /\ resolved = None
    /\ template_rows = None
    /\ saved_output = None
    /\ fill_outcome = None
    /\ fpc = "start"
    /\ OthersIdle("template")

BuildTemplateRows ==
    /\ fpc = "start"
    /\ template_rows' = Some(_build_template_rows(fill_payload, Val(fill_args.euro_rate),
                                                  Val(fill_args.margin_percent)))
    /\ fpc' = "returned"
    /\ UNCHANGED <<fill_payload, fill_args, template_sheet, ws, resolved, saved_output,
                   fill_outcome, vvars, svars, pvars, qvars, cvars, nvars, uvars, evars>>

SpecTemplateRows == InitTemplateRows /\ [][BuildTemplateRows]_vars

\* ------------------------------------------------------------------------
\* Inputs of fill_quote_template
\* ------------------------------------------------------------------------
\* a header row that spells every target header, most through an alias, after a
\* column that is not a target
FullHeaderCells ==
    <<Str("Notes"), Str("Item"), Str("Qty"), Str("Sales Price"), Str("Sales_Discount"),
      Str("Purchase_Price"), Str("Purchase Discount"), Str("Contract Start"),
      Str("Contract_End"), Str("Serial#Supported"), Str("Rebate"), Str("Opportunity"),
      Str("Memo (Line)"), Str("Quote ID (Line)"), Str("Date"), Str("Expires"),
      Str("ExpectedClose")>>

\* ------------------------------------------------------------------------
\* SpecTemplate: fill_quote_template, step by step
\* ------------------------------------------------------------------------
InitTemplate ==
    LET
        \* the rows a sheet is made of: the full header; a header that repeats Quantity
        \* where Rebate belongs and has a number for Memo (Line); a header without Item
        \* and Date; a header with Date and Qty only; and a row of old values
        SheetRowKinds ==
            LET HeaderCellsExcept(changes) ==
                    [c \in 1..Len(FullHeaderCells) |->
                        IF c \in DOMAIN changes THEN changes[c] ELSE FullHeaderCells[c]]
            IN {FullHeaderCells,
                HeaderCellsExcept(11 :> Str("Quantity") @@ 13 :> Num(7)),
                HeaderCellsExcept(2 :> Str("old") @@ 15 :> None),
                [c \in 1..Len(FullHeaderCells) |->
                    IF c \in {3, 15} THEN FullHeaderCells[c] ELSE None],
                [c \in 1..Len(FullHeaderCells) |-> Str("old")]}
        \* one included item and n billable ones, the first two items in the first file
        TemplatePayload(n) ==
            LET included == CHOOSE prices \in ItemPrices :
                                /\ prices.net_unit_price_raw = Some("Included")
                billable == CHOOSE prices \in ItemPrices :
                                /\ "net_total_value" \in DOMAIN prices
                                /\ prices.net_unit_price_raw = Some("USD 5")
                                /\ prices.net_total_value = Some(5)
            IN TwoFilePayload(n + 1, [i \in 1..(n + 1) |-> IF i = 1 THEN included ELSE billable],
                              IF n = 0 THEN 1 ELSE 2)
    IN
    /\ \/ \E n \in 1..MaxSheetRows : \E body \in [1..n -> SheetRowKinds] :
             \E hints \in ({None} \X ({None} \cup {Some(r) : r \in 1..(n + 1)}))
                              \cup ({Some(r) : r \in 1..n} \X {None}) :
                /\ template_sheet = [lead |-> 0, body |-> body]
                /\ fill_args = [euro_rate |-> Some(1), margin_percent |-> Some(0),
                                sheet_found |-> TRUE, header_row |-> hints[1],
                                data_start_row |-> hints[2]]
       \/ \E n \in 1..MaxSheetRows :
             \E body \in [1..n -> {FullHeaderCells,
                                    [c \in 1..Len(FullHeaderCells) |-> Str("old")]}] :
             /\ template_sheet = [lead |-> MaxScanRow - 1, body |-> body]
             /\ fill_args = [euro_rate |-> Some(1), margin_percent |-> Some(0),
                             sheet_found |-> TRUE, header_row |-> None,
                             data_start_row |-> None]
       \/ \E euro_rate \in {None, Some(-1), Some(0), Some(1)} :
             \E margin_percent \in {None, Some(0)} : \E sheet_found \in BOOLEAN :
                /\ template_sheet = [lead |-> 0,
                                     body |-> <<FullHeaderCells,
                                                [c \in 1..Len(FullHeaderCells) |-> Str("old")]>>]
                /\ fill_args = [euro_rate |-> euro_rate, margin_percent |-> margin_percent,
                                sheet_found |-> sheet_found, header_row |-> None,
                                data_start_row |-> None]
    /\ \E n \in 0..MaxTemplateItems : fill_payload = TemplatePayload(n)
    /\ ws = template_sheet
    /\ resolved = None
    /\ template_rows = None
    /\ saved_output = None
    /\ fill_outcome = None
    /\ fpc = "open"
    /\ OthersIdle("template")

NextTemplate ==
    \/ PrepareFill
    \/ ClearTargetColumns
    \/ FillRows
    \/ SaveWorkbook

SpecTemplate == InitTemplate /\ [][NextTemplate]_vars

\* ------------------------------------------------------------------------
\* normalize.py: parse_number_value.  A text is the sequence of its
\* characters; a number is its sign, the digits of its integer part without
\* leading zeros and the digits of its fraction without trailing zeros.
\* ------------------------------------------------------------------------
Digits == {"0", "1", "2", "3", "4", "5", "6", "7", "8", "9"}

\* value.split(separator)
RECURSIVE split(_, _)
split(value, separator) ==
    IF \A i \in 1..Len(value) : value[i] # separator THEN <<value>>
    ELSE LET first == CHOOSE i \in 1..Len(value) :
                          /\ value[i] = separator
                          /\ \A j \in 1..(i - 1) : value[j] # separator
         IN <<SubSeq(value, 1, first - 1)>>
            \o split(SubSeq(value, first + 1, Len(value)), separator)

\* "".join(parts)
RECURSIVE join(_)
join(parts) == IF parts = <<>> THEN <<>> ELSE parts[1] \o join(Tail(parts))

\* variant: the groups before the last one are the ones that must have 3 digits
thousands_groups_leading(parts) ==
    \A k \in 1..(Len(parts) - 1) :
        Len(parts[k]) = 3 /\ \A i \in 1..3 : parts[k][i] \in Digits

\* all(part.isdigit() and len(part) == 3 for part in parts[1:])
thousands_groups(parts) ==
    \A k \in 2..Len(parts) :
        Len(parts[k]) = 3 /\ \A i \in 1..3 : parts[k][i] \in Digits

_normalize_single_separator(value, separator, allow_thousands) ==
    LET parts == split(value, separator)
        head == parts[1]
        tail == parts[Len(parts)]
    IN IF Len(parts) = 1 THEN value
       ELSE IF Len(parts) > 2
       THEN IF allow_thousands /\ thousands_groups(parts) THEN join(parts)
            ELSE IF tail # <<>>
            THEN join(SubSeq(parts, 1, Len(parts) - 1)) \o <<".">> \o tail
            ELSE join(SubSeq(parts, 1, Len(parts) - 1))
       ELSE IF head = <<>> \/ tail = <<>> THEN head \o tail
       ELSE IF /\ allow_thousands
               /\ Len(tail) = 3
               /\ Len(head) <= 3
               /\ head[1] # "0"
       THEN head \o tail
       ELSE head \o <<".">> \o tail

\* variant: the first of the two separators is taken as the decimal point
decimal_separator_first(cleaned) ==
    LET rfind(ch) == CHOOSE i \in 1..Len(cleaned) :
                         cleaned[i] = ch /\ \A j \in (i + 1)..Len(cleaned) : cleaned[j] # ch
    IN IF rfind(",") > rfind(".") THEN "." ELSE ","

\* "," if cleaned.rfind(",") > cleaned.rfind(".") else "."
decimal_separator(cleaned) ==
    LET rfind(ch) == CHOOSE i \in 1..Len(cleaned) :
                         cleaned[i] = ch /\ \A j \in (i + 1)..Len(cleaned) : cleaned[j] # ch
    IN IF rfind(",") > rfind(".") THEN "," ELSE "."

_normalize_numeric_token(token, allow_thousands) ==
    LET stripped == SelectSeq(token, LAMBDA ch : ch \notin {" ", "'"})
        sign == IF stripped # <<>> /\ stripped[1] \in {"+", "-"} THEN <<stripped[1]>>
                ELSE <<>>
        cleaned == IF sign = <<>> THEN stripped ELSE Tail(stripped)
        has(ch) == \E i \in 1..Len(cleaned) : cleaned[i] = ch
        rewritten ==
            IF has(",") /\ has(".")
            THEN LET thousands_separator ==
                         IF decimal_separator(cleaned) = "," THEN "." ELSE ","
                     kept == SelectSeq(cleaned, LAMBDA ch : ch # thousands_separator)
                 IN [i \in 1..Len(kept) |-> IF kept[i] = "," THEN "." ELSE kept[i]]
            ELSE IF has(",") THEN _normalize_single_separator(cleaned, ",", allow_thousands)
            ELSE IF has(".") THEN _normalize_single_separator(cleaned, ".", allow_thousands)
            ELSE cleaned
        normalized == sign \o rewritten
    IN IF stripped = <<>> THEN None
       ELSE IF \A i \in 1..Len(cleaned) : cleaned[i] \notin Digits THEN None
       ELSE IF normalized \in {<<>>, <<"+">>, <<"-">>, <<".">>, <<"+", ".">>, <<"-", ".">>}
       THEN None
       ELSE Some(normalized)

\* float(normalized): None for the ValueError of a text that is no number
float_of(normalized) ==
    LET signed == normalized # <<>> /\ normalized[1] \in {"+", "-"}
        body == IF signed THEN Tail(normalized) ELSE normalized
        points == {i \in 1..Len(body) : body[i] = "."}
        point == IF points = {} THEN Len(body) + 1 ELSE CHOOSE i \in points : TRUE
        whole == SubSeq(body, 1, point - 1)
        fraction == SubSeq(body, point + 1, Len(body))
        zeros_before(digits) ==
            CHOOSE n \in 0..Len(digits) :
                /\ \A i \in 1..n : digits[i] = "0"
                /\ n < Len(digits) => digits[n + 1] # "0"
        zeros_after(digits) ==
            CHOOSE n \in 0..Len(digits) :
                /\ \A i \in (Len(digits) - n + 1)..Len(digits) : digits[i] = "0"
                /\ n < Len(digits) => digits[Len(digits) - n] # "0"
        int_digits == SubSeq(whole, zeros_before(whole) + 1, Len(whole))
        frac_digits == SubSeq(fraction, 1, Len(fraction) - zeros_after(fraction))
    IN IF \/ Cardinality(points) > 1
          \/ whole \o fraction = <<>>
          \/ \E i \in 1..Len(body) : body[i] \notin Digits \cup {"."}
       THEN None
       ELSE Some([negative |-> (signed /\ normalized[1] = "-"
                                   /\ int_digits \o frac_digits # <<>>),
                  int_digits |-> int_digits, frac_digits |-> frac_digits])

\* parse_number_value of a raw text that is one number token
parse_number_value(raw, allow_thousands) ==
    IF raw = <<>> THEN None
    ELSE LET normalized == _normalize_numeric_token(raw, allow_thousands)
         IN IF IsNone(normalized) THEN None ELSE float_of(Val(normalized))

\* ------------------------------------------------------------------------
\* SpecNumber: parse_number_value applied to bounded number tokens
\* ------------------------------------------------------------------------

InitNumber ==
    LET
        \* the digit groups a token is made of; a token is a sign or none, a first
        \* group that is not empty, and further groups each after a "," or a "."
        DigitGroups ==
            {<<>>, <<"5">>, <<"0", "5">>, <<"8", "0">>, <<"0", "0", "0">>, <<"5", "7", "2">>,
             <<"1", "2", "3", "4">>}
    IN
    /\ \E k \in 1..MaxGroups : \E groups \in [1..k -> DigitGroups] :
          \E separators \in [1..(k - 1) -> {",", "."}] : \E sign \in {<<>>, <<"-">>} :
             /\ groups[1] # <<>>
             /\ raw_number = sign \o join([i \in 1..(2 * k - 1) |->
                                             IF i % 2 = 1 THEN groups[(i + 1) \div 2]
                                             ELSE <<separators[i \div 2]>>])
    /\ thousands_enabled \in BOOLEAN
    /\ normalized_number = None
    /\ number_value = None
    /\ npc = "input"
    /\ OthersIdle("number")

ParseNumberValue ==
    /\ npc = "input"
    /\ normalized_number' = IF raw_number = <<>> THEN None
                            ELSE _normalize_numeric_token(raw_number, thousands_enabled)
    /\ number_value' = parse_number_value(raw_number, thousands_enabled)
    /\ npc' = "parsed"
    /\ UNCHANGED <<raw_number, thousands_enabled, vvars, svars, pvars, qvars, cvars, tvars, uvars, evars>>

SpecNumber == InitNumber /\ [][ParseNumberValue]_vars

\* ========================================================================
\* extract_template: the uploaded PDFs (app.py, io_utils.py)
\* ========================================================================
\* An uploaded file is known by the shape of its file name and by its content;
\* every other field of the request is taken to be valid.  The run of the
\* pipeline is known by what it finds in the temporary directory: a file of
\* content c gives c template rows.
\* hashlib.sha256(...).hexdigest(): a text that differs when the content does
sha256(content) == <<"sha256", content>>

\* the suffix of the saved file: secure_filename keeps the case of the name,
\* and ".pdf" is appended unless the name ends in ".pdf" in any case
saved_suffix(filename) ==
    CASE filename = "quote.pdf" -> ".pdf"
      [] filename = "QUOTE.PDF" -> ".PDF"
      [] OTHER -> ".pdf"

\* gather_pdfs on a directory: sorted(input_path.rglob("*.pdf")); the saved
\* names begin with the 3-digit upload index, so the order is the upload order
gather_pdfs(temp_dir) ==
    SelectSeq(temp_dir, LAMBDA file : file.suffix = ".pdf" \/ ~glob_case_sensitive)

\* the part of run_pipeline's payload the response shows
RECURSIVE rows_written_for(_)
rows_written_for(found) ==
    IF found = <<>> THEN 0 ELSE found[1].content + rows_written_for(Tail(found))

\* uploaded_pdfs = [file for file in ... if file and file.filename]
uploaded_pdfs == SelectSeq(request.files, LAMBDA file : file.filename # "")

\* ------------------------------------------------------------------------
\* SpecUpload: extract_template, one uploaded PDF at a time
\* ------------------------------------------------------------------------
InitUpload ==
    /\ \E n \in 0..MaxUploads :
          \E files \in [1..n -> [filename : {"quote.pdf", "QUOTE.PDF", "quote", ""},
                                 content : 1..MaxContents]] :
             \E dedupe \in BOOLEAN, strict_failed \in BOOLEAN :
                request = [files |-> files, dedupe |-> dedupe, strict_failed |-> strict_failed]
    /\ glob_case_sensitive \in BOOLEAN
    /\ upload = [index |-> 0, temp_dir |-> <<>>, seen_digests |-> {}, saved_pdf_count |-> 0,
                 duplicates_skipped |-> 0]
    /\ upload_response = None
    /\ upc = "loop"
    /\ OthersIdle("upload")

\* one pass of the loop over uploaded_pdfs
SaveUpload ==
    /\ upc = "loop"
    /\ upload.index < Len(uploaded_pdfs)
    /\ LET index == upload.index + 1
           uploaded_pdf == uploaded_pdfs[index]
           digest == sha256(uploaded_pdf.content)
           saved == [index |-> index, suffix |-> saved_suffix(uploaded_pdf.filename),
                     content |-> uploaded_pdf.content]
       IN upload' =
             IF request.dedupe /\ digest \in upload.seen_digests
             THEN [upload EXCEPT !.index = index,
                                 !.duplicates_skipped = upload.duplicates_skipped + 1]
             ELSE [upload EXCEPT !.index = index,
                                 !.temp_dir = Append(upload.temp_dir, saved),
                                 !.seen_digests = IF request.dedupe
                                                  THEN upload.seen_digests \cup {digest}
                                                  ELSE upload.seen_digests,
                                 !.saved_pdf_count = upload.saved_pdf_count + 1]
    /\ UNCHANGED <<request, glob_case_sensitive, upload_response, upc, vvars, svars, pvars, qvars, cvars, tvars, nvars, evars>>

\* the rest of the handler: the early returns, the run of the pipeline and
\* the response
RespondToUpload ==
    /\ upc = "loop"
    /\ upload.index = Len(uploaded_pdfs)
    /\ LET found == gather_pdfs(upload.temp_dir)
           payload == [file_count |-> Len(found),
                       rows_written |-> rows_written_for(found),
                       processed |-> [k \in 1..Len(found) |-> found[k].index],
                       uploaded_files |-> Len(uploaded_pdfs),
                       processed_files |-> upload.saved_pdf_count,
                       duplicates_skipped |-> upload.duplicates_skipped,
                       dedupe_enabled |-> request.dedupe]
       IN upload_response' =
             IF uploaded_pdfs = <<>> \/ upload.saved_pdf_count = 0
             THEN Some([status |-> 400, payload |-> None])
             ELSE IF found = <<>>
             THEN Some([status |-> 500, payload |-> None])
             ELSE IF request.strict_failed
             THEN Some([status |-> 422, payload |-> Some(payload)])
             ELSE Some([status |-> 200, payload |-> Some(payload)])
    /\ upc' = "responded"
    /\ UNCHANGED <<request, glob_case_sensitive, upload, vvars, svars, pvars, qvars, cvars, tvars, nvars, evars>>

NextUpload == SaveUpload \/ RespondToUpload

SpecUpload == InitUpload /\ [][NextUpload]_vars

\* ========================================================================
\* Properties of run_validation (SpecValidation)
\* ========================================================================
\* the rows of the report with a given rule_id
ReportRows(rule) == {i \in 1..Len(report) : report[i].rule_id = rule}

RowStatus(rule) == report[CHOOSE i \in ReportRows(rule) : TRUE].status

WithinTolerance(a, b) == Abs(Val(a) - Val(b)) <= config.money_tolerance

\* C1: the total_vs_overall_total row is PASS whenever overall_total_value is
\* missing, so that a missing overall total never sets the critical-failure flag
\* through this row; when total_value and overall_total_value are both present
\* the row is PASS iff |total_value - overall_total_value| <= tolerance.
C1_OverallTotalMissingIsPass ==
    vpc = "validated" =>
        /\ Cardinality(ReportRows("total_vs_overall_total")) = 1
        /\ IsNone(business_summary.overall_total_value) =>
               RowStatus("total_vs_overall_total") = "PASS"
        /\ (~IsNone(business_summary.total_value)
              /\ ~IsNone(business_summary.overall_total_value)) =>
               (RowStatus("total_vs_overall_total") = "PASS" <=>
                  WithinTolerance(business_summary.total_value,
                                  business_summary.overall_total_value))

\* C2: the total_vs_line_items row is always emitted, exactly once, and is PASS
\* iff total_value and line_items_total_value are both present and differ by at
\* most the tolerance; with either value missing it is FAIL.
C2_TotalVsLineItems ==
    vpc = "validated" =>
        /\ Cardinality(ReportRows("total_vs_line_items")) = 1
        /\ RowStatus("total_vs_line_items") \in {"PASS", "FAIL"}
        /\ RowStatus("total_vs_line_items") = "PASS" <=>
               /\ ~IsNone(business_summary.total_value)
               /\ ~IsNone(business_summary.line_items_total_value)
               /\ WithinTolerance(business_summary.total_value,
                                  business_summary.line_items_total_value)

\* C2 witness: a validated report whose line item total is missing while the
\* total is present, and the row is there with status FAIL.
C2_Witness ==
    /\ vpc = "validated"
    /\ ~IsNone(business_summary.total_value)
    /\ IsNone(business_summary.line_items_total_value)
    /\ RowStatus("total_vs_line_items") = "FAIL"

\* the rule ids of the rows that failed
FailedRules == {report[i].rule_id : i \in {j \in 1..Len(report) : report[j].status = "FAIL"}}

\* C3: critical_failed is true iff some row of the report has status FAIL and a
\* rule_id in the configured critical_rules; a failed rule outside that set never
\* sets the flag, whatever its severity, and an empty set never sets it.
C3_CriticalFailedIffCriticalRuleFails ==
    vpc = "validated" =>
        /\ critical_failed <=> (FailedRules \cap config.critical_rules # {})
        /\ config.critical_rules = {} => ~critical_failed

\* C3 witness: a row tagged critical fails, its rule is not configured as
\* critical, and the flag stays false.
C3_Witness ==
    /\ vpc = "validated"
    /\ ~critical_failed
    /\ config.critical_rules # {}
    /\ \E i \in 1..Len(report) :
           /\ report[i].status = "FAIL"
           /\ report[i].severity = "critical"
           /\ report[i].rule_id \notin config.critical_rules

\* ========================================================================
\* Properties of select_line_items_for_total (SpecSelect)
\* ========================================================================
\* the positions of the input items that belong to section s
PositionsOf(s) == {i \in 1..Len(line_items) : section_of(line_items[i]) = s}

InputSections == {section_of(line_items[i]) : i \in 1..Len(line_items)}

\* the sum of net_total_value over section s, null counted as 0
RECURSIVE SumOver(_)
SumOver(P) ==
    IF P = {} THEN 0
    ELSE LET i == CHOOSE j \in P : TRUE
         IN net_or_zero(line_items[i]) + SumOver(P \ {i})

DiffOf(s) == Abs(Val(total_value) - SumOver(PositionsOf(s)))

Matching == {s \in InputSections : DiffOf(s) <= tolerance}

\* out is the items at the positions P of the input, in their original order,
\* numbered 1..N and otherwise unchanged
IsRenumberedSelection(out, P) ==
    /\ Len(out) = Cardinality(P)
    /\ \A k \in 1..Len(out) :
           LET i == CHOOSE j \in P : Cardinality({h \in P : h < j}) = k - 1
           IN out[k] = [line_items[i] EXCEPT !.item_index = k]

SelectApplied == spc \in {"selected", "reselected"}

SomeSectionMatches ==
    /\ Cardinality(InputSections) >= 2
    /\ ~IsNone(total_value)
    /\ Matching # {}

\* C7: with items in two or more sections, a total, and at least one section
\* whose sum is within tolerance of it, the result is exactly the items of the
\* matching section with the smallest difference, the lowest section index
\* winning ties, in original order and numbered 1..N.
C7_MatchingSectionSelected ==
    (SelectApplied /\ SomeSectionMatches) =>
        \E s \in Matching :
            /\ \A t \in Matching : DiffOf(s) < DiffOf(t) \/ (DiffOf(s) = DiffOf(t) /\ s <= t)
            /\ IsRenumberedSelection(selected, PositionsOf(s))

\* C7 witness: two sections match, the later one is strictly closer to the total
\* and is the one returned, so items were dropped and renumbered.
C7_Witness ==
    /\ spc = "selected"
    /\ SomeSectionMatches
    /\ \E s, t \in Matching : s < t /\ DiffOf(t) < DiffOf(s)
                              /\ IsRenumberedSelection(selected, PositionsOf(t))
    /\ Len(selected) < Len(line_items)
    /\ \E k \in 1..Len(selected) : selected[k].sku # k

\* C8: with a single section, or no total, or no section within tolerance, every
\* input item is returned, in original order, numbered 1..N.
C8_NoFilteringWithoutMatch ==
    (SelectApplied /\ ~SomeSectionMatches) =>
        IsRenumberedSelection(selected, 1..Len(line_items))

\* C8 witness: several sections, a total, none of the sections within tolerance,
\* and all items returned.
C8_Witness ==
    /\ spc = "selected"
    /\ Cardinality(InputSections) >= 2
    /\ ~IsNone(total_value)
    /\ Matching = {}
    /\ Len(selected) = Len(line_items)

\* C9: running the reconciliation on its own result returns that result, with
\* the same numbering.
C9_Idempotent == spc = "reselected" => reselected = selected

\* C9 witness: the first call dropped a section and renumbered, with more than one
\* section matching the total, and the second call has been made.
C9_Witness ==
    /\ spc = "reselected"
    /\ ~IsNone(total_value)
    /\ Cardinality(Matching) >= 2
    /\ selected # <<>>
    /\ Len(selected) < Len(line_items)
    /\ \E k \in 1..Len(selected) : selected[k].sku # k

\* C30: select_line_items_for_total leaves its input list and the item_index
\* of every input item as they were, the renumbering being applied to copies,
\* and its output is, up to the renumbering, the whole input or exactly the
\* items of one section, in the order of the input.
C30_InputUnchangedOutputSubsequence ==
    [][(spc = "input" /\ spc' = "selected") =>
          /\ line_items' = line_items
          /\ \/ IsRenumberedSelection(selected', 1..Len(line_items))
             \/ \E s \in InputSections : IsRenumberedSelection(selected', PositionsOf(s))]_vars

\* C30 witness: the second of two sections was returned, its first item
\* numbered 1 in the output and still numbered by its place in the input.
C30_Witness ==
    /\ spc = "selected"
    /\ Len(selected) < Len(line_items)
    /\ \E i \in 2..Len(line_items) :
          /\ line_items[i].item_index = i
          /\ selected[1] = [line_items[i] EXCEPT !.item_index = 1]
    /\ \A i \in 1..Len(line_items) : line_items[i].item_index = i

\* ========================================================================
\* Properties of run_pipeline (Spec)
\* ========================================================================
IsProcessingErrorRow(row) ==
    row.rule_id = "processing_error" /\ row.severity = "critical" /\ row.status = "FAIL"

\* record rec carries a critical failure: a failed row of a configured critical
\* rule, or the row of a processing error
HadCriticalFailure(rec) ==
    \E k \in 1..Len(rec.validation_report) :
        LET row == rec.validation_report[k]
        IN \/ IsProcessingErrorRow(row)
           \/ row.status = "FAIL" /\ row.rule_id \in run_config.critical_rules

\* C4: run_pipeline returns 2 exactly when strict is set and at least one
\* document had a critical failure, and 0 otherwise; a run with strict = false
\* returns 0 whatever happened to its documents, processing errors included.
C4_ExitCodeTwoOnlyWhenStrict ==
    \A r \in Runs :
        pc[r] = "done" =>
            exit_code[r] =
                IF strict[r] /\ \E i \in 1..Len(files_payload[r]) :
                                    HadCriticalFailure(files_payload[r][i])
                THEN Some(2) ELSE Some(0)

\* C5: a document that raises does not end the run: it gets a record with
\* exactly one validation row (processing_error, critical, FAIL) and a non-null
\* error, every other document gets, in order, the record it has when processed
\* on its own, and the failed document is counted in the files of the run.
C5_ErrorIsolation ==
    \A r \in Runs :
        /\ pc[r] = "raised" => (~IsNone(template) /\ Len(files_payload[r]) = Len(pdfs))
        /\ Returned(r) => Len(files_payload[r]) = Len(pdfs)
        /\ Len(files_payload[r]) <= Len(pdfs)
        /\ \A i \in 1..Len(files_payload[r]) :
               LET rec == files_payload[r][i]
                   doc == pdfs[i]
               IN /\ rec.file = doc.file
                  /\ ~IsNone(doc.exc) =>
                         /\ Len(rec.validation_report) = 1
                         /\ IsProcessingErrorRow(rec.validation_report[1])
                         /\ ~IsNone(rec.error)
                  /\ IsNone(doc.exc) =>
                         /\ rec = process_one_pdf(doc, run_config, strict[r]).per_file_json
                         /\ IsNone(rec.error)
                         /\ \A k \in 1..Len(rec.validation_report) :
                                ~IsProcessingErrorRow(rec.validation_report[k])

\* C5 witness: a finished run over two documents, the first of which raised and
\* the second of which was processed normally, with parsed items and a full report.
C5_Witness ==
    \E r \in Runs :
        /\ pc[r] = "done"
        /\ Len(pdfs) = 2
        /\ Len(files_payload[r]) = 2
        /\ ~IsNone(pdfs[1].exc)
        /\ ~IsNone(files_payload[r][1].error)
        /\ IsNone(files_payload[r][2].error)
        /\ files_payload[r][2].line_items_parsed # <<>>
        /\ Len(files_payload[r][2].validation_report) = Len(RuleIds)

\* C6: the two runs, which differ only in the strict flag, end the same way with
\* the same per-file records, validation rows and template rows, and have
\* written the same artifacts; only the exit code may differ.
C6_StrictIsAdvisory ==
    (Returned(1) /\ Returned(2)) =>
        /\ strict[1] # strict[2]
        /\ pc[1] = pc[2]
        /\ files_payload[1] = files_payload[2]
        /\ rows_by_sheet[1] = rows_by_sheet[2]
        /\ template_output[1] = template_output[2]
        /\ written[1] = written[2]
        /\ pc[1] = "done" =>
               written[1] = (IF write_audit_workbook THEN {"audit"} ELSE {}) \cup {"json"}
                                \cup (IF IsNone(template) THEN {} ELSE {"template"})

\* C6 witness: both runs are done with a template filled, the strict run
\* returned 2 and the other one 0.
C6_Witness ==
    /\ pc[1] = "done" /\ pc[2] = "done"
    /\ exit_code[1] = Some(0)
    /\ exit_code[2] = Some(2)
    /\ "template" \in written[2]
    /\ ~IsNone(template_output[2])
    /\ Val(template_output[2]).rows_written > 0

\* the payload with every file's items replaced by its reconciled items
ReconciledPayload(payload) ==
    [i \in 1..Len(payload) |->
        [payload[i] EXCEPT !.line_items_parsed =
            select_line_items_for_total(payload[i].line_items_parsed,
                                        payload[i].business_summary.total_value,
                                        run_config.money_tolerance)]]

\* C10: the rows written to the template, and rows_written, come from the
\* reconciled line items only: for a document with several sections of which
\* one matches the total, only the items of the selected section give rows.
C10_TemplateRowsFromReconciledItems ==
    \A r \in Runs :
        (pc[r] = "done" /\ ~IsNone(template)) =>
            LET out == Val(template_output[r])
                expected == _build_template_rows(ReconciledPayload(files_payload[r]), 1, 0)
            IN /\ out.rows_written = Len(expected)
               /\ \A k \in 1..Len(out.rows) :
                      \E j \in 1..Len(expected) : expected[j].Opportunity = out.rows[k].Opportunity
                                                  /\ expected[j].Item = out.rows[k].Item

\* ------------------------------------------------------------------------
\* C11: the summary's line item total is recomputed from the reconciled items
\* ------------------------------------------------------------------------
\* the reconciled items of a processed record
ReconciledItemsOf(rec) ==
    select_line_items_for_total(rec.line_items_parsed,
                                rec.business_summary.total_value,
                                run_config.money_tolerance)

\* the sum of net_total_value over a list of items, a null value counting as 0
RECURSIVE NetSum(_)
NetSum(items) ==
    IF items = <<>> THEN 0
    ELSE (IF IsNone(Head(items).net_total_value) THEN 0
          ELSE Val(Head(items).net_total_value)) + NetSum(Tail(items))

\* the rows of a record's validation report with the given rule id
RecordRows(rec, rule_id) ==
    {i \in 1..Len(rec.validation_report) : rec.validation_report[i].rule_id = rule_id}

\* C11: for every document processed without error, line_items_total_value is
\* the sum of net_total_value (null as 0) over the reconciled items, null when
\* there are none, and the total_vs_line_items row compares total_value with
\* exactly this recomputed value.
C11_LineItemsTotalRecomputed ==
    \A r \in Runs : \A k \in 1..Len(files_payload[r]) :
        LET rec == files_payload[r][k]
            kept == ReconciledItemsOf(rec)
            line_total == rec.business_summary.line_items_total_value
            total == rec.business_summary.total_value
        IN IsNone(rec.error) =>
              /\ line_total = IF kept = <<>> THEN None
                              ELSE Some(NetSum(kept))
              /\ \A i \in RecordRows(rec, "total_vs_line_items") :
                    LET row == rec.validation_report[i]
                    IN IF IsNone(total) \/ IsNone(line_total)
                       THEN row.status = "FAIL" /\ IsNone(row.observed_value)
                       ELSE /\ row.observed_value = Some(Abs(Val(total) - Val(line_total)))
                            /\ row.status = "PASS" <=>
                                   Abs(Val(total) - Val(line_total))
                                       <= run_config.money_tolerance

\* C11 witness: a processed document whose reconciliation dropped items, so the
\* recomputed total differs from the sum over everything that was parsed, and
\* whose total_vs_line_items row passes on the recomputed value.
C11_Witness ==
    \E r \in Runs : \E k \in 1..Len(files_payload[r]) :
        LET rec == files_payload[r][k]
            parsed == rec.line_items_parsed
        IN /\ IsNone(rec.error)
           /\ Len(ReconciledItemsOf(rec)) < Len(parsed)
           /\ rec.business_summary.line_items_total_value
                  # Some(NetSum(parsed))
           /\ \E i \in RecordRows(rec, "total_vs_line_items") :
                  rec.validation_report[i].status = "PASS"

\* ========================================================================
\* Properties of parse_line_items (SpecParse)
\* ========================================================================
\* C12: every item parse_line_items returns has a non-null sku and at least
\* one non-null value among list_unit_price_raw, net_unit_price_raw and
\* net_total_raw; a row lacking the sku or all three prices creates no item.
C12_ItemsHaveSkuAndPrice ==
    \A i \in 1..Len(parser.items) :
        LET item == parser.items[i]
        IN /\ ~IsNone(item.sku)
           /\ \/ ~IsNone(item.list_unit_price_raw)
              \/ ~IsNone(item.net_unit_price_raw)
              \/ ~IsNone(item.net_total_raw)

\* C12 witness: an item whose only price is its net unit price text, and a
\* last row with a sku and no price that created nothing.
C12_Witness ==
    /\ table_row = Some(DataRow({"service_name", "sku"}))
    /\ Len(parser.items) = 1
    /\ rows_done = 2
    /\ IsNone(parser.items[1].list_unit_price_raw)
    /\ IsNone(parser.items[1].net_total_raw)

\* the cells of a row after cleaning
CleanedRow(row) == [i \in 1..Len(row) |-> _clean_cell(row[i])]

\* the columns of a row with a non-null cell
NonNullCells(row) == {i \in 1..Len(row) : ~IsNone(CleanedRow(row)[i])}

\* the fields of a row as the loop reads them in the current state
ReadFields(row) == row_fields(parser, CleanedRow(row), line_item_rules.min_columns)

OneCell(row) == Cardinality(NonNullCells(row)) = 1

OnlyServiceName(row) ==
    /\ ~IsNone(ReadFields(row)["service_name"])
    /\ \A f \in FieldSet \ {"service_name"} : IsNone(ReadFields(row)[f])

\* net_total present and every other field absent
BoundaryShaped(row) ==
    /\ ~IsNone(ReadFields(row)["net_total"])
    /\ \A f \in FieldSet \ {"net_total"} : IsNone(ReadFields(row)[f])

\* the text of a continuation row
ContinuationText(row) ==
    IF OneCell(row) THEN Val(CleanedRow(row)[CHOOSE i \in NonNullCells(row) : TRUE])
    ELSE Val(ReadFields(row)["service_name"])

\* the step handles the given row
Handles(row) == table_row' = Some(row) /\ rows_done' = rows_done + 1

\* the step appends the text to the most recently created item and changes
\* nothing else of any item
AppendsToLastItem(text) ==
    /\ parser.items # <<>>
    /\ parser'.items =
           [parser.items EXCEPT ![Len(parser.items)].description_continuation =
               IF @ = None THEN <<text>> ELSE Append(@, text)]

\* what C13 says of a step that handles a continuation row
ContinuationHandled(row) ==
    /\ Len(parser'.items) = Len(parser.items)
    /\ IF ~IsNone(parser.current_item)
       THEN AppendsToLastItem(ContinuationText(row))
       ELSE parser'.items = parser.items

\* C13 as stated: a row with exactly one non-null cell, or with only
\* service_name present, leaves the number of items unchanged and, when an item
\* is open, its text is appended to the description_continuation of the most
\* recently created item, no other field of any item changing.
C13_ContinuationRowsAppend ==
    [][\A row \in TableRows :
          (Handles(row) /\ (OneCell(row) \/ OnlyServiceName(row)))
              => ContinuationHandled(row)]_vars

\* the row is read as a header, or skipped as restated header or legend text
HeaderOrLegend(row) ==
    \/ _detect_line_item_column_map(CleanedRow(row)) # EmptyColumnMap
    \/ is_restated_header(CleanedRow(row), line_item_rules)

\* C13, amended: the same holds of every such row that is neither a header nor
\* restated header text and whose single cell is not read as the net total (a
\* row with only a net total is a section boundary and its text is dropped).
C13_ContinuationRowsAppendUnlessBoundary ==
    [][\A row \in TableRows :
          (/\ Handles(row)
           /\ OneCell(row) \/ OnlyServiceName(row)
           /\ ~HeaderOrLegend(row)
           /\ ~BoundaryShaped(row))
              => ContinuationHandled(row)]_vars

\* C13 witness: two items were created, the second is open, and a row with a
\* single cell has put its text on the second item.
C13_Witness ==
    /\ rows_done = 3
    /\ Len(parser.items) = 2
    /\ table_row = Some(<<Some("more detail")>>)
    /\ parser.items[1].description_continuation = None
    /\ parser.items[2].description_continuation = <<"more detail">>

\* the current section has an item already
SectionHasItem ==
    \E i \in 1..Len(parser.items) :
        parser.items[i].quote_section_index = Some(parser.quote_section_index)

\* C14: a section boundary row (net_total present, every other field absent)
\* closes the open item, so that no later continuation row is attached to it,
\* and increments the section counter iff the current section already has an
\* item: several such rows in a row, or one before any item, advance the
\* counter at most once, or not at all.
C14_SectionBoundary ==
    [][\A row \in TableRows :
          Handles(row) =>
              /\ BoundaryShaped(row) =>
                    /\ parser'.current_item = None
                    /\ parser'.items = parser.items
                    /\ parser'.quote_section_index =
                           IF SectionHasItem THEN parser.quote_section_index + 1
                           ELSE parser.quote_section_index
              /\ IsNone(parser.current_item) =>
                    /\ Len(parser'.items) >= Len(parser.items)
                    /\ \A i \in 1..Len(parser.items) : parser'.items[i] = parser.items[i]]_vars

\* C14 witness: one item, then a boundary row that advanced the counter to 2,
\* then a second boundary row that left it there.
C14_Witness ==
    /\ rows_done = 3
    /\ Len(parser.items) = 1
    /\ parser.items[1].quote_section_index = Some(1)
    /\ table_row = Some(DataRow({"net_total"}))
    /\ parser.quote_section_index = 2
    /\ ~parser.section_has_items
    /\ parser.active_column_map = EmptyColumnMap

\* the first of the row rules that applies to a data row, in the stated order
FirstApplicableRule(row) ==
    LET v == ReadFields(row)
        open == ~IsNone(parser.current_item)
    IN IF BoundaryShaped(row) THEN "section boundary"
       ELSE IF open /\ OneCell(row) THEN "single-cell continuation"
       ELSE IF open /\ OnlyServiceName(row) THEN "description-only continuation"
       ELSE IF ~IsNone(v["sku"]) /\ (\E f \in {"list_unit_price", "net_unit_price", "net_total"} :
                                        ~IsNone(v[f]))
       THEN "new item"
       ELSE IF open /\ ~IsNone(v["service_name"]) THEN "fallback continuation"
       ELSE "none"

\* the step does to the items what the given rule does, and nothing else
RuleFired(rule, row) ==
    LET v == ReadFields(row)
        n == Len(parser.items)
    IN CASE rule = "section boundary" ->
                /\ parser'.items = parser.items
                /\ parser'.current_item = None
         [] rule = "single-cell continuation" ->
                /\ AppendsToLastItem(Val(CleanedRow(row)[CHOOSE i \in NonNullCells(row) : TRUE]))
                /\ parser'.current_item = parser.current_item
         [] rule \in {"description-only continuation", "fallback continuation"} ->
                /\ AppendsToLastItem(Val(v["service_name"]))
                /\ parser'.current_item = parser.current_item
         [] rule = "new item" ->
                /\ Len(parser'.items) = n + 1
                /\ \A i \in 1..n : parser'.items[i] = parser.items[i]
                /\ parser'.items[n + 1].sku = v["sku"]
                /\ parser'.items[n + 1].description_continuation = None
                /\ parser'.current_item = Some(n + 1)
         [] OTHER -> parser' = parser

\* C25: for each data row exactly the first applicable rule fires, in the
\* order section boundary, single-cell continuation, description-only
\* continuation, new item, fallback continuation: a row whose only non-null
\* cell is the net total is a section boundary even when an item is open, and
\* a continuation row of an open item creates no item.
C25_RowRulePriority ==
    [][\A row \in TableRows :
          (Handles(row) /\ ~HeaderOrLegend(row)) =>
              /\ RuleFired(FirstApplicableRule(row), row)
              /\ (BoundaryShaped(row) /\ ~IsNone(parser.current_item)) =>
                    parser'.items = parser.items /\ parser'.current_item = None
              /\ (~IsNone(parser.current_item) /\ ~BoundaryShaped(row)
                    /\ (OneCell(row) \/ OnlyServiceName(row))) =>
                    Len(parser'.items) = Len(parser.items)]_vars

\* C25 witness: an item was open when a row whose only cell is the net total
\* came; the row closed the item and put no text on it.
C25_Witness ==
    /\ rows_done = 2
    /\ table_row = Some([DataRow({"net_total"}) EXCEPT ![1] = Some(" ")])
    /\ Len(parser.items) = 1
    /\ parser.items[1].description_continuation = None
    /\ parser.current_item = None
    /\ parser.quote_section_index = 2

\* the row has a cell that counts for the field: the field is the first, in
\* the order of the keyword table, with a keyword in the cell
YieldsField(row, f) ==
    \E i \in NonNullCells(row) :
        LET hit(g) == g \in HeaderPatternFields(Val(CleanedRow(row)[i]))
        IN /\ hit(f)
           /\ \A k \in 1..Len(Fields) :
                 (hit(Fields[k]) /\ Fields[k] # f) =>
                     k > (CHOOSE j \in 1..Len(Fields) : Fields[j] = f)

\* the stated condition for a header row
MatchesHeaderCondition(row) ==
    /\ YieldsField(row, "service_name")
    /\ YieldsField(row, "sku")
    /\ \E f \in {"list_unit_price", "net_unit_price", "net_total"} : YieldsField(row, f)

\* the step replaces the active column map by a map of the row and touches no item
ReplacesColumnMap(row) ==
    /\ parser' = [parser EXCEPT !.active_column_map = parser'.active_column_map]
    /\ \A f \in FieldSet :
          IF YieldsField(row, f)
          THEN /\ ~IsNone(parser'.active_column_map[f])
               /\ f \in HeaderPatternFields(
                           Val(CleanedRow(row)[Val(parser'.active_column_map[f])]))
          ELSE IsNone(parser'.active_column_map[f])

\* C26 as stated: a row replaces the active column map if and only if its cells
\* match the keywords of service_name, of sku and of at least one pricing
\* field; such a row creates or changes no item; any other row leaves the map
\* unchanged and is handled by the data-row rules.
C26_HeaderDetection ==
    [][\A row \in TableRows :
          Handles(row) =>
              IF MatchesHeaderCondition(row) THEN ReplacesColumnMap(row)
              ELSE /\ parser'.active_column_map = parser.active_column_map
                   /\ RuleFired(FirstApplicableRule(row), row)]_vars

\* C26 amended: any other row leaves the map unchanged and, unless it is
\* skipped as restated header or legend text, is handled by the data-row rules.
C26_HeaderDetectionUnlessLegend ==
    [][\A row \in TableRows :
          Handles(row) =>
              IF MatchesHeaderCondition(row) THEN ReplacesColumnMap(row)
              ELSE /\ parser'.active_column_map = parser.active_column_map
                   /\ IF is_restated_header(CleanedRow(row), line_item_rules)
                      THEN parser' = parser
                      ELSE RuleFired(FirstApplicableRule(row), row)]_vars

\* C26 witness: after an item, a header row with the sku before the service
\* name replaced the column map and left the item as it was.
C26_Witness ==
    /\ rows_done = 2
    /\ table_row = Some(HeaderRow(<<"sku", "service_name", "net_total">>))
    /\ parser.active_column_map["sku"] = Some(1)
    /\ parser.active_column_map["service_name"] = Some(2)
    /\ Len(parser.items) = 1
    /\ parser.items[1].description_continuation = None

\* C29: in the items of parse_line_items, after any rows, quote_section_index
\* is non-decreasing in item order, the first item has index 1, consecutive
\* items differ by at most 1, and item_index of the i-th item is i.
C29_SectionAndItemIndexes ==
    \A i \in 1..Len(parser.items) :
        /\ parser.items[i].item_index = i
        /\ i = 1 => parser.items[i].quote_section_index = Some(1)
        /\ i > 1 =>
              LET before == Val(parser.items[i - 1].quote_section_index)
                  here == Val(parser.items[i].quote_section_index)
              IN before <= here /\ here <= before + 1

\* C29 witness: two boundary rows came before the first item, which is in
\* section 1 all the same.
C29_Witness ==
    /\ rows_done = 3
    /\ Len(parser.items) = 1
    /\ parser.items[1].quote_section_index = Some(1)
    /\ parser.items[1].item_index = 1
    /\ parser.quote_section_index = 1
    /\ parser.section_has_items

\* ========================================================================
\* Properties of the positional reading (SpecPositional)
\* ========================================================================
\* C27: with no column map active, a row of any length, for any configured
\* min_columns, is padded with nulls and read positionally as service_name,
\* sku, units_qty, term, list price, discount, net price, net total without
\* raising; cells beyond the eighth are ignored.
C27_PositionalExtraction ==
    [][\A row \in PositionalRows :
          (Handles(row) /\ parser.active_column_map = EmptyColumnMap) =>
              /\ ~parser'.raised
              /\ \A k \in 1..Len(Fields) :
                    ReadFields(row)[Fields[k]] =
                        IF k <= Len(row) THEN CleanedRow(row)[k] ELSE None
              /\ RuleFired(FirstApplicableRule(row), row)]_vars

\* ========================================================================
\* Properties of parse_line_items over the documents of a run (SpecDocuments)
\* ========================================================================
\* C24: the items parsed for a document depend only on its own tables:
\* whatever column map, open item or section counter the documents before it
\* in the run ended with, the items (and the outcome) are those of parsing the
\* document alone.
C24_NoStateAcrossDocuments ==
    documents_done # <<>> =>
        /\ parser.items = alone_parser.items
        /\ parser.raised = alone_parser.raised

\* C24 witness: the first document ended with a column map and an open item;
\* a full row of the second document was read positionally into item 1 of
\* section 1.
C24_Witness ==
    /\ documents_done # <<>>
    /\ documents_done[1].active_column_map # EmptyColumnMap
    /\ ~IsNone(documents_done[1].current_item)
    /\ documents_done[1].section_has_items
    /\ Len(parser.items) = 1
    /\ parser.items[1].file = "second.pdf"
    /\ parser.items[1].item_index = 1
    /\ parser.items[1].sku = Some("NK-A")
    /\ parser.items[1].quote_section_index = Some(1)

\* ========================================================================
\* Properties of parse_line_items over reordered columns (SpecReorder)
\* ========================================================================
\* C15: for any order of the eight header columns, the table whose header row
\* and data rows are laid out in that order parses into the same line items as
\* the table in the original order.
C15_ColumnOrderIrrelevant == reordered_parser.items = parser.items

\* C15 witness: the columns are not in the positional order, the service name
\* column among them, and a full data row and a continuation row have been
\* parsed into an item with every field read from its own column.
C15_Witness ==
    /\ column_order # IdentityOrder
    /\ column_order[1] # 1
    /\ rows_done = 3
    /\ Len(reordered_parser.items) = 1
    /\ reordered_parser.items[1].service_name = Some("Widget")
    /\ reordered_parser.items[1].sku = Some("NK-A")
    /\ reordered_parser.items[1].net_total_value = Some(5)
    /\ reordered_parser.items[1].description_continuation = <<"Widget">>

\* ========================================================================
\* Properties of extract_business_summary (SpecSummary)
\* ========================================================================
\* the raw total the currency is looked for in: total_raw when it was found,
\* overall_total_raw otherwise
PreferredRawTotal ==
    IF ~IsNone(full_text.total_raw) /\ ~Val(full_text.total_raw).empty
    THEN full_text.total_raw
    ELSE full_text.overall_total_raw

\* the markers occurring in that raw total, none when no raw total was found
PreferredMarkers ==
    IF IsNone(PreferredRawTotal) THEN {} ELSE Val(PreferredRawTotal).markers

\* C20: for every document processed without error, the summary's currency is
\* USD, EUR or GBP when a matching symbol or ISO code occurs in the raw total
\* (in this priority order, total_raw preferred over overall_total_raw) and the
\* configured default otherwise; it is never null, also when neither raw total
\* was found.
C20_CurrencyNeverNull ==
    ~IsNone(extracted_summary) =>
        LET currency == Val(extracted_summary).currency
        IN /\ currency # None
           /\ currency =
                  Some(IF {"USD", "dollar sign"} \cap PreferredMarkers # {} THEN "USD"
                       ELSE IF {"EUR", "euro sign", "mis-decoded euro sign"}
                                   \cap PreferredMarkers # {} THEN "EUR"
                       ELSE IF {"GBP", "pound sign"} \cap PreferredMarkers # {} THEN "GBP"
                       ELSE normalization.currency_default)

\* ========================================================================
\* Properties of _build_template_rows (SpecTemplateRows)
\* ========================================================================
\* the items of every file of the payload, in file and item order
RECURSIVE PayloadItems(_)
PayloadItems(payload) ==
    IF payload = <<>> THEN <<>>
    ELSE payload[1].line_items_parsed \o PayloadItems(Tail(payload))

\* the net total and the sales price of an item: its value, or else what its
\* raw text parses to
NetTotalOf(item) ==
    IF "net_total_value" \in DOMAIN item /\ ~IsNone(item.net_total_value)
    THEN item.net_total_value
    ELSE parse_currency_value(item.net_total_raw)

SalesPriceOf(item) ==
    IF "list_unit_price_value" \in DOMAIN item /\ ~IsNone(item.list_unit_price_value)
    THEN item.list_unit_price_value
    ELSE parse_currency_value(item.list_unit_price_raw)

\* the skip rule as stated
SkipRule(item) ==
    \/ StripLower(item.net_unit_price_raw) = "included"
    \/ /\ NetTotalOf(item) = Some(0)
       /\ SalesPriceOf(item) \in {None, Some(0)}

RowMatches(r) ==
    LET texts == {_normalize_header(cell_value(template_sheet, r, c)[2]) :
                     c \in {k \in 1..Len(template_sheet.body[1]) :
                               /\ ~IsNone(cell_value(template_sheet, r, k))
                               /\ cell_value(template_sheet, r, k)[1] = "str"}}
    IN {name \in TargetHeaderSet : texts \cap NORMALIZED_HEADER_ALIASES[name] # {}}

\* the rows the scan looks at, and those of them that match all 16 headers
ScannedRows ==
    1..(IF max_row(template_sheet) <= MaxScanRow THEN max_row(template_sheet)
        ELSE MaxScanRow)

FullRows == {r \in ScannedRows : RowMatches(r) = TargetHeaderSet}

HintMatches ==
    /\ ~IsNone(fill_args.header_row)
    /\ RowMatches(Val(fill_args.header_row)) = TargetHeaderSet

\* the header row as stated: the hint when it matches, else the first full row
StatedHeaderRow ==
    IF HintMatches THEN fill_args.header_row
    ELSE IF FullRows # {} THEN Some(smallest(FullRows))
    ELSE None

\* the call got as far as resolving the headers
HeadersLookedUp ==
    \/ fpc \in {"clear", "fill", "save", "returned"}
    \/ fpc = "raised" /\ Val(fill_outcome).error \in {"headers", "data_start_row", "capacity"}

\* C19: a hint that matches all 16 target headers is the header row; otherwise
\* the first of rows 1..min(50, last row) matching all 16 is, whatever the hint;
\* when no scanned row matches all 16 the call fails, naming the headers missing
\* from a scanned row with the most matches.
C19_HeaderResolution ==
    HeadersLookedUp =>
        LET header_row == StatedHeaderRow
        IN
        IF ~IsNone(header_row)
        THEN /\ ~IsNone(resolved)
             /\ Val(resolved).header_row = Val(header_row)
        ELSE /\ IsNone(resolved)
             /\ fpc = "raised"
             /\ Val(fill_outcome).error = "headers"
             /\ LET most == CHOOSE n \in {Cardinality(RowMatches(r)) : r \in ScannedRows} :
                               \A r \in ScannedRows : Cardinality(RowMatches(r)) <= n
                    named == {Val(fill_outcome).missing[i] :
                                 i \in 1..Len(Val(fill_outcome).missing)}
                IN \E r \in ScannedRows :
                      /\ Cardinality(RowMatches(r)) = most
                      /\ named = TargetHeaderSet \ RowMatches(r)

\* C19 witness: the hint names a row that lacks two headers, the row below it
\* has all 16, and the fill returns with that row as the header row.
C19_Witness ==
    /\ fpc = "returned"
    /\ fill_args.header_row = Some(1)
    /\ Cardinality(RowMatches(1)) = 14
    /\ RowMatches(2) = TargetHeaderSet
    /\ Val(fill_outcome).header_row = 2

\* the rows that are to be written: one for every item that is not skipped
StatedRowCount ==
    Len(SelectSeq(PayloadItems(fill_payload), LAMBDA item : ~SkipRule(item)))

\* the structural errors as stated
StructuralError ==
    LET header_row == StatedHeaderRow
        data_start_row == IF IsNone(fill_args.data_start_row) THEN Val(header_row) + 1
                          ELSE Val(fill_args.data_start_row)
    IN \/ IsNone(fill_args.euro_rate)
       \/ Val(fill_args.euro_rate) <= 0
       \/ IsNone(fill_args.margin_percent)
       \/ ~fill_args.sheet_found
       \/ IsNone(header_row)
       \/ data_start_row <= Val(header_row)
       \/ StatedRowCount > max_row(template_sheet) - data_start_row + 1

StatedColumn(name, header_row) ==
    smallest({c \in 1..Len(template_sheet.body[1]) :
                 /\ ~IsNone(cell_value(template_sheet, header_row, c))
                 /\ cell_value(template_sheet, header_row, c)[1] = "str"
                 /\ _normalize_header(cell_value(template_sheet, header_row, c)[2])
                        \in NORMALIZED_HEADER_ALIASES[name]})

\* C17: after a successful fill with K rows, every cell of the 16 mapped columns
\* in rows data start row .. last row holds the value of row (r - data start row
\* + 1) when r < data start row + K and is empty otherwise.
C17_CellsAfterFill ==
    fpc = "returned" =>
        LET rows == Val(template_rows)
            start == Val(fill_outcome).data_start_row
            saved == Val(saved_output)
        IN /\ Len(rows) = StatedRowCount
           /\ \A r \in start..max_row(saved) : \A name \in TargetHeaderSet :
                 cell_value(saved, r, StatedColumn(name, Val(fill_outcome).header_row)) =
                     IF r < start + Len(rows) THEN rows[r - start + 1][name] ELSE None

\* C17 witness: one row was written at the data start row and the row below it,
\* which held old values, is empty in the mapped columns and keeps the value of
\* the column that is not mapped.
C17_Witness ==
    /\ fpc = "returned"
    /\ Val(fill_outcome).rows_written = 1
    /\ Val(fill_outcome).data_start_row = 2
    /\ max_row(template_sheet) = 3
    /\ cell_value(template_sheet, 3, 2) = Str("old")
    /\ cell_value(Val(saved_output), 2, 2) = Str("NK-2")
    /\ cell_value(Val(saved_output), 3, 2) = None
    /\ cell_value(Val(saved_output), 3, 1) = Str("old")


\* ========================================================================
\* Properties of parse_number_value (SpecNumber)
\* ========================================================================
\* the token without its sign, and the sign
NumberBody == IF raw_number # <<>> /\ raw_number[1] = "-" THEN Tail(raw_number) ELSE raw_number

NumberSign == IF raw_number # <<>> /\ raw_number[1] = "-" THEN <<"-">> ELSE <<>>

\* the positions of a character in the token
PositionsIn(ch) == {i \in 1..Len(NumberBody) : NumberBody[i] = ch}

LastIn(ch) == CHOOSE i \in PositionsIn(ch) : \A j \in PositionsIn(ch) : j <= i

\* the token with every separator but the one at position `point` removed, and
\* that one written as the decimal point
WithDecimalPointAt(point) ==
    SelectSeq([i \in 1..Len(NumberBody) |->
                  IF i = point THEN "." ELSE IF NumberBody[i] \in {",", "."} THEN "x"
                  ELSE NumberBody[i]],
              LAMBDA ch : ch # "x")

AllDigits == SelectSeq(NumberBody, LAMBDA ch : ch \in Digits)

\* C21: in a token with at least one "," and at least one ".", the separator
\* whose last occurrence is later is the decimal point (every occurrence of it
\* is read as "."), every occurrence of the other one is removed, and the value
\* returned is the number so written.
C21_BothSeparators ==
    (npc = "parsed" /\ PositionsIn(",") # {} /\ PositionsIn(".") # {}) =>
        LET decimal == IF LastIn(",") > LastIn(".") THEN "," ELSE "."
            as_written == [i \in 1..Len(NumberBody) |->
                           IF NumberBody[i] = decimal THEN "."
                           ELSE IF NumberBody[i] \in {",", "."} THEN "x" ELSE NumberBody[i]]
            expected == NumberSign \o SelectSeq(as_written, LAMBDA ch : ch # "x")
        IN /\ normalized_number = Some(expected)
           /\ number_value = float_of(expected)
           /\ Cardinality(PositionsIn(decimal)) = 1 =>
                 /\ ~IsNone(number_value)
                 /\ number_value = float_of(NumberSign \o WithDecimalPointAt(LastIn(decimal)))

\* C21 witness: 5.572,80 has been parsed and gave 5572.8.
C21_Witness ==
    /\ npc = "parsed"
    /\ raw_number = <<"5", ".", "5", "7", "2", ",", "8", "0">>
    /\ number_value = Some([negative |-> FALSE, int_digits |-> <<"5", "5", "7", "2">>,
                            frac_digits |-> <<"8">>])

\* the groups of the token between the occurrences of its one separator
NumberGroups(ch) == split(NumberBody, ch)

OneSeparatorRepeated(ch) ==
    /\ Cardinality(PositionsIn(ch)) >= 2
    /\ PositionsIn(IF ch = "," THEN "." ELSE ",") = {}

\* the result as stated, with the groups that must have 3 digits given
ResultOfRepeated(ch, grouped) ==
    IF thousands_enabled /\ \A k \in grouped :
                               /\ Len(NumberGroups(ch)[k]) = 3
                               /\ \A i \in 1..3 : NumberGroups(ch)[k][i] \in Digits
    THEN float_of(NumberSign \o AllDigits)
    ELSE float_of(NumberSign \o WithDecimalPointAt(LastIn(ch)))

\* C22 as stated: with one separator type occurring two or more times, if every
\* group except the last one has exactly 3 digits and thousands grouping is
\* enabled the result is the integer of all digits; otherwise the last
\* occurrence is the decimal point and the earlier ones are removed.
C22_RepeatedSeparator ==
    \A ch \in {",", "."} :
        (npc = "parsed" /\ OneSeparatorRepeated(ch)) =>
            number_value = ResultOfRepeated(ch, 1..(Len(NumberGroups(ch)) - 1))

\* C22 amended: the groups that must have exactly 3 digits are all the groups
\* except the first one.
C22_RepeatedSeparatorAfterFirst ==
    \A ch \in {",", "."} :
        (npc = "parsed" /\ OneSeparatorRepeated(ch)) =>
            number_value = ResultOfRepeated(ch, 2..Len(NumberGroups(ch)))

\* C22 witness: 5,000,572 with thousands grouping gave 5000572, and the first
\* group has one digit.
C22_Witness ==
    /\ npc = "parsed"
    /\ thousands_enabled
    /\ raw_number = <<"5", ",", "0", "0", "0", ",", "5", "7", "2">>
    /\ number_value = Some([negative |-> FALSE,
                            int_digits |-> <<"5", "0", "0", "0", "5", "7", "2">>,
                            frac_digits |-> <<>>])


\* ========================================================================
\* Properties of extract_template (SpecUpload)
\* ========================================================================
\* the uploads that are the first of their content, in upload order
FirstOfContent ==
    {i \in 1..Len(uploaded_pdfs) :
        \A j \in 1..(i - 1) : uploaded_pdfs[j].content # uploaded_pdfs[i].content}

\* the template rows of a set of uploads
RECURSIVE RowsOfUploads(_)
RowsOfUploads(indexes) ==
    IF indexes = {} THEN 0
    ELSE LET i == CHOOSE k \in indexes : TRUE
         IN uploaded_pdfs[i].content + RowsOfUploads(indexes \ {i})

\* the uploads the stated rule processes
StatedUploads == IF request.dedupe THEN FirstOfContent ELSE 1..Len(uploaded_pdfs)

\* C23: with dedupe disabled every uploaded PDF is processed (file_count is
\* the number of uploads, duplicates_skipped is 0, the template rows are the
\* sum over all uploads); with dedupe enabled exactly the first upload of each
\* distinct content is processed and duplicates_skipped = uploads - processed.
C23_UploadDeduplication ==
    (upc = "responded" /\ uploaded_pdfs # <<>>) =>
        /\ ~IsNone(Val(upload_response).payload)
        /\ LET payload == Val(Val(upload_response).payload)
           IN /\ {payload.processed[k] : k \in 1..Len(payload.processed)} = StatedUploads
              /\ payload.file_count = Cardinality(StatedUploads)
              /\ payload.rows_written = RowsOfUploads(StatedUploads)
              /\ payload.duplicates_skipped = Len(uploaded_pdfs) - payload.file_count
              /\ ~request.dedupe => payload.duplicates_skipped = 0

\* ------------------------------------------------------------------------
\* raw_extract.py: the page loop of extract_pdf_raw
\* ------------------------------------------------------------------------
\* A text is the layer it was read from and its number of characters
\* (after strip()); a word is the value of its "source" key.

\* config["ocr"]["min_native_text_chars"], by default
ocr_min_chars == 50

\* the text and words a page is recorded with when the OCR result is taken
\* whenever ocr_page_words returns
select_page_text_any_result(page, mode) ==
    LET should_ocr == mode = "always" \/ (mode = "auto" /\ page.native_text.chars < ocr_min_chars)
    IN IF should_ocr /\ ~page.ocr.raises
       THEN [selected_text |-> page.ocr.text, selected_words |-> page.ocr.words,
             page_used_ocr |-> TRUE]
       ELSE [selected_text |-> page.native_text, selected_words |-> page.native_words,
             page_used_ocr |-> FALSE]

\* the text and words a page is recorded with, and whether they are OCR's
select_page_text(page, mode) ==
    LET should_ocr == mode = "always" \/ (mode = "auto" /\ page.native_text.chars < ocr_min_chars)
    IN IF should_ocr /\ ~page.ocr.raises /\ page.ocr.words # <<>>
       THEN [selected_text |-> page.ocr.text, selected_words |-> page.ocr.words,
             page_used_ocr |-> TRUE]
       ELSE [selected_text |-> page.native_text, selected_words |-> page.native_words,
             page_used_ocr |-> FALSE]

\* ------------------------------------------------------------------------
\* SpecExtract
\* ------------------------------------------------------------------------
InitExtract ==
    LET NativeLayers ==
            {[native_text |-> [source |-> "native", chars |-> 0], native_words |-> <<>>],
             [native_text |-> [source |-> "native", chars |-> ocr_min_chars - 1],
              native_words |-> <<"native">>],
             [native_text |-> [source |-> "native", chars |-> ocr_min_chars],
              native_words |-> <<"native", "native">>]}
        \* ocr_page_words raises, returns ("", []) or returns its tokens
        OcrOutcomes ==
            {[raises |-> TRUE, text |-> [source |-> "ocr", chars |-> 0], words |-> <<>>],
             [raises |-> FALSE, text |-> [source |-> "ocr", chars |-> 0], words |-> <<>>],
             [raises |-> FALSE, text |-> [source |-> "ocr", chars |-> 3], words |-> <<"ocr">>]}
        Pages == {[native_text |-> n.native_text, native_words |-> n.native_words, ocr |-> o] :
                      n \in NativeLayers, o \in OcrOutcomes}
    IN /\ pdf \in {[pages |-> ps] : ps \in UNION {[1..n -> Pages] : n \in 0..MaxPages}}
       /\ ocr_mode \in {"off", "auto", "always"}
       /\ results = [pages |-> <<>>, text_words |-> <<>>, ocr_pages |-> <<>>, full_text |-> <<>>]
       /\ epc = "pages"
       /\ OthersIdle("extract")

\* one turn of the loop over pdf.pages
ExtractPage ==
    /\ epc = "pages"
    /\ Len(results.pages) < Len(pdf.pages)
    /\ LET page_idx == Len(results.pages) + 1
           page == pdf.pages[page_idx]
           sel == select_page_text(page, ocr_mode)
           page_row == [page |-> page_idx,
                        text_source |-> sel.selected_text.source,
                        text_chars |-> sel.selected_text.chars,
                        word_count |-> Len(sel.selected_words),
                        used_ocr |-> sel.page_used_ocr]
       IN results' = [pages |-> Append(results.pages, page_row),
                      text_words |-> results.text_words \o
                                     [k \in 1..Len(sel.selected_words) |->
                                         [page |-> page_idx, source |-> sel.selected_words[k]]],
                      ocr_pages |-> IF sel.page_used_ocr
                                    THEN Append(results.ocr_pages, page_idx)
                                    ELSE results.ocr_pages,
                      \* full_text_parts, of which the return joins the non-empty ones
                      full_text |-> IF sel.selected_text.chars > 0
                                    THEN Append(results.full_text,
                                                [page |-> page_idx,
                                                 source |-> sel.selected_text.source])
                                    ELSE results.full_text]
    /\ UNCHANGED <<pdf, ocr_mode, epc, vvars, svars, pvars, qvars, cvars, tvars, nvars, uvars>>

\* the loop is over: results is returned
ReturnResults ==
    /\ epc = "pages"
    /\ Len(results.pages) = Len(pdf.pages)
    /\ epc' = "returned"
    /\ UNCHANGED <<pdf, ocr_mode, results, vvars, svars, pvars, qvars, cvars, tvars, nvars, uvars>>

SpecExtract == InitExtract /\ [][ExtractPage \/ ReturnResults]_vars

\* ------------------------------------------------------------------------
\* Properties of SpecExtract
\* ------------------------------------------------------------------------
\* OCR is attempted on a page
OcrAttempted(page) ==
    ocr_mode = "always" \/ (ocr_mode = "auto" /\ page.native_text.chars < ocr_min_chars)

\* the OCR call of a page raises or returns no words
OcrFailed(page) == OcrAttempted(page) /\ (page.ocr.raises \/ page.ocr.words = <<>>)

\* page k is recorded with its native text and words and not as an OCR page
KeptNative(k) ==
    LET page == pdf.pages[k]
        row == results.pages[k]
    IN /\ row.page = k
       /\ row.used_ocr = FALSE
       /\ \A i \in 1..Len(results.ocr_pages) : results.ocr_pages[i] # k
       /\ row.text_source = "native"
       /\ row.text_chars = page.native_text.chars
       /\ row.word_count = Len(page.native_words)
       /\ \A i \in 1..Len(results.text_words) :
              results.text_words[i].page = k => results.text_words[i].source = "native"
       /\ Cardinality({i \in 1..Len(results.text_words) : results.text_words[i].page = k})
              = Len(page.native_words)
       /\ \A i \in 1..Len(results.full_text) :
              results.full_text[i].page = k => results.full_text[i].source = "native"

\* C28: a page whose OCR call raises or returns no words keeps its native
\* text and words, has used_ocr = false and is not in ocr_pages; the pages
\* after it are extracted all the same, and the document is returned with a
\* row for every page.
C28_OcrBestEffort ==
    /\ Len(results.pages) <= Len(pdf.pages)
    /\ \A k \in 1..Len(results.pages) : OcrFailed(pdf.pages[k]) => KeptNative(k)
    /\ epc = "returned" =>
          /\ Len(results.pages) = Len(pdf.pages)
          /\ \A k \in 1..Len(pdf.pages) : results.pages[k].page = k

\* a returned document whose first page's OCR raised and whose second page,
\* extracted after that failure, had an OCR result without words: both pages
\* are recorded from their native layer
C28_Witness ==
    /\ epc = "returned"
    /\ Len(pdf.pages) = 2
    /\ OcrAttempted(pdf.pages[1]) /\ pdf.pages[1].ocr.raises
    /\ OcrAttempted(pdf.pages[2]) /\ ~pdf.pages[2].ocr.raises /\ pdf.pages[2].ocr.words = <<>>
    /\ KeptNative(1) /\ KeptNative(2)
    /\ results.ocr_pages = <<>>

====
